---- MODULE Spec2Model ----
(***************************************************************************)
(* Conversation orchestration core of the WhatsApp appointment assistant.  *)
(*                                                                         *)
(* The repository holds two WhatsappService implementations:               *)
(*   - src/src/whatsapp/whatsapp.service.ts : the multi-state dialogue     *)
(*     machine backed by ConversationService (specification Spec);         *)
(*   - src/unnamed/part_002 : the single-shot "intelligent" path with the  *)
(*     in-memory conversation history and the outbound dedup guard         *)
(*     (specification SpecIntel).                                          *)
(* Pure functions (slot merge, diff, store round trip) are checked under   *)
(* their own specifications, whose Init draws the inputs.                  *)
(***************************************************************************)
EXTENDS Integers, Sequences, FiniteSets, TLC

VARIABLES
    store,      \* conversation_states table: phone number -> row or Absent
    now,        \* wall clock, in seconds
    tasks,      \* tasks table: sequence of rows created through TasksService
    last,       \* observation of the most recent turn (what it did)
    histories,  \* conversationHistories map of the conversational service
    outbox,     \* per user, the most recent sendMessage call (text, posted)
    pure        \* inputs and results of the pure-function specifications

vars == <<store, now, tasks, last, histories, outbox, pure>>

-----------------------------------------------------------------------------
(* Optional values: undefined is the empty tuple, a defined value x is <<x>>. *)

None == <<>>
Some(x) == <<x>>

\* JavaScript truthiness of an optional string: undefined and "" are falsy.
TruthyStr(o) == o # None /\ o[1] # ""
\* JavaScript truthiness of an optional object (Date, array): any defined
\* object is truthy, the empty array included.
TruthyObj(o) == o # None

-----------------------------------------------------------------------------
(* Bounds of the model *)

Users == {"u1", "u2"}
MaxFullText == 4
MaxNow == 1801
MaxTasks == 1
MaxHistory == 4

(* Program constants *)
StaleMinutes == 30
SecondsPerMinute == 60
SecondsPerHour == 3600
SecondsPerDay == 86400

-----------------------------------------------------------------------------
(* ConversationState enum *)

INITIAL == "initial"
COLLECTING_INFO == "collecting_info"
CONFIRMING == "confirming"
UPDATING_TASK == "updating_task"
DELETING_TASK == "deleting_task"
SELECTING_TASK == "selecting_task"
CONFIRMING_CONFLICT == "confirming_conflict"

Absent == [state |-> "absent"]

-----------------------------------------------------------------------------
(* Inbound texts.  TLC has no string operations, so the three the code uses *)
(* (toLowerCase, trim, includes) are tabulated over the texts of the model. *)

InboundTexts ==
    {"CANCELAR ", "reiniciar", "ajuda", "listar", "sim", "editar", "almoço 12:30"}

toLowerCase(t) ==
    CASE t = "CANCELAR " -> "cancelar "
      [] t = "Confirmar" -> "confirmar"
      [] t = "Editar" -> "editar"
      [] t = "Sim, excluir" -> "sim, excluir"
      [] t = "Cancelar" -> "cancelar"
      [] t = "Almoço" -> "almoço"
      [] t = "Reunião" -> "reunião"
      [] OTHER -> t

trim(t) ==
    CASE t = "CANCELAR " -> "CANCELAR"
      [] t = "cancelar " -> "cancelar"
      [] OTHER -> t

\* t.includes(sub), for the substrings the code looks for
includes(t, sub) ==
    \/ t = sub
    \/ <<t, sub>> \in {<<"almoço 12:30", "almoço">>, <<"almoço 12:30", "12:30">>,
                       <<"sim, excluir", "sim">>,
                       <<"não, assim não", "não">>, <<"não, assim não", "sim">>,
                       <<"excluir reunião", "reunião">>, <<"excluir 16:00", "16:00">>}

CancelKeywords == {"cancelar", "cancel", "/cancelar"}
RestartKeywords == {"reiniciar", "restart", "/reiniciar"}
HelpKeywords == {"ajuda", "help", "/ajuda"}
ListKeywords == {"listar", "compromissos", "/listar"}

-----------------------------------------------------------------------------
(* Slot model (TaskData) and contexts *)

Date(t) == [kind |-> "Date", t |-> t]
IsoString(t) == [kind |-> "string", t |-> t]

EmptyTaskData ==
    [action |-> None, dateTime |-> None, location |-> None,
     participants |-> None, fullText |-> <<>>]

createInitialContext(clock) ==
    [state |-> COLLECTING_INFO,
     taskData |-> EmptyTaskData,
     lastUpdateTime |-> clock,
     selectedTaskId |-> None,
     operation |-> None,
     tasks |-> None]

\* Variant: a context aged exactly 30 minutes already counts as stale
isConversationStale_Inclusive(context, clock) ==
    context.lastUpdateTime <= clock - StaleMinutes * SecondsPerMinute

\* isConversationStale: lastUpdateTime < now - 30 minutes
isConversationStale(context, clock) ==
    context.lastUpdateTime < clock - StaleMinutes * SecondsPerMinute

\* JSON.stringify of task_data on the way to the jsonb column: a Date becomes
\* its ISO string (and stays a string when read back).
ToJson(taskData) ==
    [taskData EXCEPT !.dateTime =
        IF @ = None THEN None ELSE Some(IsoString(@[1].t))]

\* The row saveConversationState writes: state, task_data and the time of the
\* write.  selectedTaskId, operation and tasks have no column and are dropped.
SaveRow(context, clock) ==
    [state |-> context.state,
     task_data |-> ToJson(context.taskData),
     last_update_time |-> clock]

\* The context getConversationState builds from a row.
LoadRow(row) ==
    [state |-> row.state,
     taskData |-> row.task_data,
     lastUpdateTime |-> row.last_update_time,
     selectedTaskId |-> None,
     operation |-> None,
     tasks |-> None]

\* Field-wise override of the slot model by an extraction (the four guarded
\* assignments of handleCollectingInfo / handleConfirmation / handleTaskUpdate).
Merge(taskData, info) ==
    [taskData EXCEPT
        !.action = IF TruthyStr(info.action) THEN info.action ELSE @,
        !.dateTime = IF TruthyObj(info.dateTime) THEN info.dateTime ELSE @,
        !.location = IF TruthyStr(info.location) THEN info.location ELSE @,
        !.participants = IF TruthyObj(info.participants) THEN info.participants ELSE @]

\* Variant: the title alone opens the confirmation
IsComplete_TitleOnly(taskData) == TruthyStr(taskData.action)

\* The completeness test of handleCollectingInfo: action and dateTime truthy
IsComplete(taskData) == TruthyStr(taskData.action) /\ TruthyObj(taskData.dateTime)

-----------------------------------------------------------------------------
(* A turn is computed over a "world" record w that is threaded through the  *)
(* handlers in the order the code runs them:                                *)
(*   ctx      the in-memory ConversationContext object (mutated in place)   *)
(*   row      this user's row of conversation_states                        *)
(*   tasks    the tasks table                                               *)
(*   created  the tasksService.createTask calls made in this turn           *)
(*   selected the selectedTaskId of the contexts the handlers saved         *)
(*   sent     the messages delivered in this turn                           *)
(*   oracle   the number of OpenAI calls made in this turn                  *)
(*   handler  the state handlers run in this turn                           *)
(*   saved    the context object was written to the row and not cleared after *)
(*   failed   an external collaborator failed in this turn                  *)
(*   threw    an exception is propagating                                   *)
(* env holds the turn's inputs: what the oracle returns (info1, info2: an   *)
(* extraction, or None for the null it returns on any failure) and which    *)
(* collaborators fail.                                                      *)

Then(w, F(_)) == IF w.threw THEN w ELSE F(w)
Catch(w, H(_)) == IF w.threw THEN H([w EXCEPT !.threw = FALSE]) ELSE w

Throw(w) == [w EXCEPT !.threw = TRUE, !.failed = TRUE]

\* WhatsappService.sendMessage (whatsapp.service.ts): rethrows a failed post
sendMessage(w, message, env) ==
    IF env.failSend THEN Throw(w)
    ELSE [w EXCEPT !.sent = Append(@, message)]

\* sendInteractiveConfirmation: falls back to a plain message when the
\* interactive post fails
sendInteractiveConfirmation(w, message, env) ==
    IF env.failInteractive
    THEN sendMessage([w EXCEPT !.failed = TRUE], message, env)
    ELSE [w EXCEPT !.sent = Append(@, message)]

\* ConversationService.getConversationState: null when there is no row and
\* also when the query fails
getConversationState(row, env) ==
    IF env.failGet \/ row = Absent THEN None ELSE Some(LoadRow(row))

saveConversationState(w, clock, env) ==
    IF env.failWrite THEN Throw(w)
    ELSE [w EXCEPT !.row = SaveRow(w.ctx, clock), !.saved = TRUE]

clearConversationState(w, env) ==
    IF env.failWrite THEN Throw(w)
    ELSE [w EXCEPT !.row = Absent, !.saved = FALSE]

\* Date.prototype.toLocaleString('pt-BR') renders a Date as local text;
\* on a string (a dateTime read back from the jsonb column) it is the
\* inherited Object.prototype.toLocaleString, i.e. the string itself.
toLocaleStringPtBR(d) ==
    IF d.kind = "Date" THEN [kind |-> "pt-BR", t |-> d.t] ELSE d

\* gen_random_uuid() of the tasks table: an id no row of the table carries
TaskIds == <<"t1", "t2", "t3", "t4", "t5">>

NewId(taskRows) ==
    TaskIds[CHOOSE i \in 1..Len(TaskIds) :
               /\ \A k \in 1..Len(taskRows) : taskRows[k].id # TaskIds[i]
               /\ \A j \in 1..(i - 1) : \E k \in 1..Len(taskRows) : taskRows[k].id = TaskIds[j]]

\* TasksService.createTask: one insert into tasks
TasksServiceCreateTask(w, dto) ==
    [w EXCEPT
        !.created = Append(@, dto),
        !.tasks = Append(@, [id |-> NewId(w.tasks),
                             user_id |-> dto.userId,
                             title |-> dto.title,
                             scheduled_date |-> toLocaleStringPtBR(dto.scheduledDate[1])])]

\* WhatsappService.createTask: swallows every failure of the insert and of
\* the success message, answering with an apology
createTask(w, userId, env) ==
    LET dto == [userId |-> userId,
                title |-> w.ctx.taskData.action,
                scheduledDate |-> w.ctx.taskData.dateTime]
        body == IF env.failTasks THEN Throw(w)
                ELSE sendMessage(TasksServiceCreateTask(w, dto), "created", env)
    IN Catch(body, LAMBDA x : sendMessage(x, "create-error", env))

StartOfDay(clock) == (clock \div 86400) * 86400
TodayAt(clock, h, m) == StartOfDay(clock) + h * 3600 + m * 60

\* /(\d{1,2})[:\.](\d{2})/ on the texts of the model
TimePatternMatch(t) ==
    IF includes(t, "12:30") THEN Some(<<12, 30>>)
    ELSE IF includes(t, "16:00") THEN Some(<<16, 0>>)
    ELSE None

\* The direct extraction handleCollectingInfo falls back to when the oracle
\* returned null
DirectExtraction(taskData, messageText, clock) ==
    LET m == TimePatternMatch(messageText)
        a == IF includes(toLowerCase(messageText), "almoço") /\ ~TruthyStr(taskData.action)
             THEN Some("Almoço") ELSE taskData.action
        d == IF m # None /\ ~TruthyObj(taskData.dateTime)
             THEN Some(Date(TodayAt(clock, m[1][1], m[1][2]))) ELSE taskData.dateTime
        l == IF includes(toLowerCase(messageText), "restaurante") /\ ~TruthyStr(taskData.location)
             THEN Some("Restaurante") ELSE taskData.location
    IN [taskData EXCEPT !.action = a, !.dateTime = d, !.location = l]

\* Change detection (checkForInfoChanges, getChangeHighlights).  Instants are
\* in seconds.

\* new Date(x).getTime(): the instant of a Date or of its ISO string
getTime(d) == d.t

\* toLocaleString('pt-BR', {dateStyle: 'short', timeStyle: 'short'}):
\* day, month, year, hour and minute; the seconds are not printed
toLocaleStringShort(d) == getTime(d) \div SecondsPerMinute

\* JSON.stringify of the participants array (undefined stays undefined)
StringifyParticipants(participants) == participants

checkForInfoChanges(previous, current) ==
    IF previous = None THEN FALSE
    ELSE LET prev == previous[1]
             actionChanged == prev.action # current.action
             dateTimeChanged ==
                 IF TruthyObj(prev.dateTime) /\ TruthyObj(current.dateTime)
                 THEN getTime(prev.dateTime[1]) # getTime(current.dateTime[1])
                 ELSE TruthyObj(prev.dateTime) # TruthyObj(current.dateTime)
             locationChanged == prev.location # current.location
             participantsChanged ==
                 StringifyParticipants(prev.participants)
                     # StringifyParticipants(current.participants)
         IN actionChanged \/ dateTimeChanged \/ locationChanged \/ participantsChanged

\* The fields getChangeHighlights writes a line for, in the order it pushes
\* them (the empty sequence stands for its null result)
getChangeHighlights(previous, current) ==
    IF previous = None THEN <<>>
    ELSE LET prev == previous[1]
             Formatted(dateTime) ==
                 IF TruthyObj(dateTime) THEN Some(toLocaleStringShort(dateTime[1]))
                 ELSE None
             action == IF prev.action # current.action THEN <<"action">> ELSE <<>>
             dateTime ==
                 IF (TruthyObj(prev.dateTime) \/ TruthyObj(current.dateTime))
                    /\ Formatted(prev.dateTime) # Formatted(current.dateTime)
                 THEN <<"dateTime">> ELSE <<>>
             location == IF prev.location # current.location THEN <<"location">> ELSE <<>>
             participants ==
                 IF StringifyParticipants(prev.participants)
                        # StringifyParticipants(current.participants)
                 THEN <<"participants">> ELSE <<>>
         IN action \o dateTime \o location \o participants

handleCollectingInfo(w, messageText, info, previousTaskInfo, clock, env) ==
    LET td0 == [w.ctx.taskData EXCEPT !.fullText = Append(@, messageText)]
        td1 == IF info # None THEN Merge(td0, info[1])
               ELSE DirectExtraction(td0, messageText, clock)
        w1 == [w EXCEPT !.ctx.taskData = td1,
                        !.oracle = @ + 1,
                        !.failed = @ \/ info = None,
                        !.handler = Append(@, "handleCollectingInfo")]
        hasChanges == checkForInfoChanges(previousTaskInfo, td1)
        body == IF IsComplete(td1)
                THEN IF hasChanges /\ previousTaskInfo # None
                     THEN sendInteractiveConfirmation(
                             [w1 EXCEPT !.ctx.state = CONFIRMING,
                                        !.highlights = getChangeHighlights(previousTaskInfo, td1)],
                             "confirmation-with-changes", env)
                     ELSE sendInteractiveConfirmation(
                             [w1 EXCEPT !.ctx.state = CONFIRMING], "confirmation", env)
                ELSE sendMessage(w1, "collecting", env)
    IN Catch(body, LAMBDA x : sendMessage(x, "collecting-error", env))

IsAffirmative(response) ==
    includes(response, "sim") \/ response \in {"s", "yes", "confirmar"}

IsNegative(response) ==
    \/ includes(response, "não") \/ includes(response, "nao")
    \/ response \in {"n", "no", "editar"}

handleConfirmation(w, userId, messageText, clock, env) ==
    LET response == toLowerCase(messageText)
        w1 == [w EXCEPT !.handler = Append(@, "handleConfirmation")]
    IN IF IsAffirmative(response)
       THEN Then(createTask(w1, userId, env),
                 LAMBDA x : clearConversationState(x, env))
       ELSE IF IsNegative(response)
       THEN sendMessage([w1 EXCEPT !.ctx.state = COLLECTING_INFO], "ask-changes", env)
       ELSE LET w2 == [w1 EXCEPT
                         !.ctx.state = COLLECTING_INFO,
                         !.oracle = @ + 1,
                         !.failed = @ \/ env.info1 = None,
                         !.ctx.taskData = IF env.info1 # None
                                          THEN Merge(@, env.info1[1]) ELSE @]
            IN handleCollectingInfo(w2, messageText, env.info2, None, clock, env)

handleCancelCommand(w, env) ==
    Then(clearConversationState([w EXCEPT !.handler = Append(@, "handleCancelCommand")], env),
         LAMBDA x : sendMessage(x, "cancelled", env))

handleRestartCommand(w, clock, env) ==
    Then(saveConversationState(
            [w EXCEPT !.ctx = createInitialContext(clock),
                      !.handler = Append(@, "handleRestartCommand")], clock, env),
         LAMBDA x : sendMessage(x, "restarted", env))

handleHelpCommand(w, env) ==
    sendMessage([w EXCEPT !.handler = Append(@, "handleHelpCommand")], "help", env)

-----------------------------------------------------------------------------
(* Listing, selecting, updating and deleting tasks (whatsapp.service.ts).   *)
(* The rows of the model carry no location and no participants.             *)

\* new Date(task.scheduledDate): the instant the column holds
NewDate(scheduled_date) == Date(getTime(scheduled_date))

\* parseInt on the texts of the model
ParseInt(t) ==
    CASE t = "1" -> Some(1)
      [] t = "2" -> Some(2)
      [] t = "3" -> Some(3)
      [] OTHER -> None

\* Array.prototype.sort by scheduled instant (stable)
RECURSIVE SortByDate(_)
SortByDate(rows) ==
    IF Len(rows) <= 1 THEN rows
    ELSE LET m == CHOOSE i \in 1..Len(rows) :
                     /\ \A j \in 1..Len(rows) :
                           getTime(rows[i].scheduled_date) <= getTime(rows[j].scheduled_date)
                     /\ \A j \in 1..(i - 1) :
                           getTime(rows[j].scheduled_date) > getTime(rows[i].scheduled_date)
             rest == [k \in 1..(Len(rows) - 1) |-> IF k < m THEN rows[k] ELSE rows[k + 1]]
         IN <<rows[m]>> \o SortByDate(rest)

\* Variant: the rows of every user are returned
findAllByUser_AnyUser(taskRows, userId) == SortByDate(taskRows)

\* tasksService.findAllByUser: the user's rows ordered by scheduled_date
\* ascending (no two rows of the model carry the same instant)
findAllByUser(taskRows, userId) ==
    SortByDate(SelectSeq(taskRows, LAMBDA r : r.user_id = userId))

\* tasks.filter(task => new Date(task.scheduledDate) >= today).sort(...)
UpcomingTasks(userTasks, clock) ==
    SortByDate(SelectSeq(userTasks,
                         LAMBDA task : getTime(task.scheduled_date) >= StartOfDay(clock)))

\* saveConversationState of a context object other than the turn's own
saveOtherContext(w, context, clock, env) ==
    IF env.failWrite THEN Throw(w)
    ELSE [w EXCEPT !.row = SaveRow(context, clock),
                   !.selected = IF context.selectedTaskId = None THEN @
                                ELSE Append(@, context.selectedTaskId[1])]

\* The context handleListCommand saves
ListedContext(userTasks, clock) ==
    [createInitialContext(clock) EXCEPT !.state = INITIAL, !.tasks = Some(userTasks)]

\* The context handleUpdateCommand / handleDeleteCommand saves
SelectingContext(operation, upcomingTasks, clock) ==
    [createInitialContext(clock) EXCEPT
        !.state = SELECTING_TASK,
        !.operation = Some(operation),
        !.tasks = Some(upcomingTasks)]

\* The context startTaskUpdate saves
UpdatingContext(task, clock) ==
    [createInitialContext(clock) EXCEPT
        !.state = UPDATING_TASK,
        !.taskData = [action |-> task.title,
                      dateTime |-> Some(NewDate(task.scheduled_date)),
                      location |-> None, participants |-> None, fullText |-> <<>>],
        !.selectedTaskId = Some(task.id)]

\* The context startTaskDeletion saves
DeletingContext(task, clock) ==
    [createInitialContext(clock) EXCEPT
        !.state = DELETING_TASK, !.selectedTaskId = Some(task.id)]

\* tasksService.findOne: the rows with this id (.single() fails unless there
\* is exactly one)
FindOne(taskRows, id) ==
    IF id = None THEN <<>> ELSE SelectSeq(taskRows, LAMBDA r : r.id = id[1])

\* tasksService.update: the truthy fields of the dto overwrite the row;
\* scheduledDate.toISOString() exists on a Date only
TasksServiceUpdate(w, id, dto, env) ==
    IF \/ env.failTasks
       \/ Len(FindOne(w.tasks, id)) # 1
       \/ (TruthyObj(dto.scheduledDate) /\ dto.scheduledDate[1].kind # "Date")
    THEN Throw(w)
    ELSE [w EXCEPT
            !.updated = Append(@, [id |-> id[1], dto |-> dto]),
            !.tasks = [k \in 1..Len(@) |->
                          IF @[k].id # id[1] THEN @[k]
                          ELSE [@[k] EXCEPT
                                  !.title = IF TruthyStr(dto.title) THEN dto.title ELSE @,
                                  !.scheduled_date =
                                      IF TruthyObj(dto.scheduledDate)
                                      THEN IsoString(getTime(dto.scheduledDate[1])) ELSE @]]]

\* tasksService.remove
TasksServiceRemove(w, id, env) ==
    IF env.failTasks \/ id = None THEN Throw(w)
    ELSE [w EXCEPT !.removed = Append(@, id[1]),
                   !.tasks = SelectSeq(@, LAMBDA r : r.id # id[1])]

\* sendInteractiveDeleteConfirmation: falls back to a plain message
sendInteractiveDeleteConfirmation(w, message, env) ==
    IF env.failInteractive
    THEN sendMessage([w EXCEPT !.failed = TRUE], message, env)
    ELSE [w EXCEPT !.sent = Append(@, message)]

startTaskUpdate(w, task, clock, env) ==
    LET body == Then(sendMessage(w, "updating", env),
                     LAMBDA x : saveOtherContext(x, UpdatingContext(task, clock), clock, env))
    IN Catch(body, LAMBDA x : sendMessage(x, "update-start-error", env))

startTaskDeletion(w, task, clock, env) ==
    LET body == Then(sendInteractiveDeleteConfirmation(w, "about-to-delete", env),
                     LAMBDA x : saveOtherContext(x, DeletingContext(task, clock), clock, env))
    IN Catch(body, LAMBDA x : sendMessage(x, "deletion-start-error", env))

\* updateTask: update, confirmation, clearConversationState
updateTask(w, taskId, taskData, env) ==
    LET dto == [title |-> taskData.action, scheduledDate |-> taskData.dateTime]
        body == Then(TasksServiceUpdate(w, taskId, dto, env),
                     LAMBDA x : Then(sendMessage(x, "updated", env),
                                     LAMBDA y : clearConversationState(y, env)))
    IN Catch(body, LAMBDA x : sendMessage(x, "update-error", env))

\* deleteTask: findOne, remove, confirmation, clearConversationState
deleteTask(w, taskId, env) ==
    LET body == IF env.failTasks \/ Len(FindOne(w.tasks, taskId)) # 1 THEN Throw(w)
                ELSE Then(TasksServiceRemove(w, taskId, env),
                          LAMBDA x : Then(sendMessage(x, "deleted", env),
                                          LAMBDA y : clearConversationState(y, env)))
    IN Catch(body, LAMBDA x : sendMessage(x, "delete-error", env))

DeleteAnswers == {"sim", "confirmar", "delete_confirm", "sim, excluir"}

handleTaskDeletion(w, messageText, env) ==
    LET lowerCaseMessage == trim(toLowerCase(messageText))
        w1 == [w EXCEPT !.handler = Append(@, "handleTaskDeletion")]
        body == IF lowerCaseMessage \in DeleteAnswers
                THEN deleteTask(w1, w1.ctx.selectedTaskId, env)
                ELSE Then(sendMessage(w1, "deletion-cancelled", env),
                          LAMBDA x : clearConversationState(x, env))
    IN Catch(body, LAMBDA x : sendMessage(x, "deletion-error", env))

\* handleTaskSelection: context.tasks.length is read on every path, and it
\* throws when the context has no tasks
handleTaskSelection(w, messageText, clock, env) ==
    LET selection == ParseInt(trim(messageText))
        w1 == [w EXCEPT !.handler = Append(@, "handleTaskSelection")]
        body ==
            IF w1.ctx.tasks = None THEN Throw(w1)
            ELSE IF selection = None \/ selection[1] < 1
                    \/ selection[1] > Len(w1.ctx.tasks[1])
            THEN sendMessage(w1, "pick-a-number", env)
            ELSE LET selectedTask == w1.ctx.tasks[1][selection[1]]
                 IN IF w1.ctx.operation = Some("update")
                    THEN startTaskUpdate(w1, selectedTask, clock, env)
                    ELSE IF w1.ctx.operation = Some("delete")
                    THEN startTaskDeletion(w1, selectedTask, clock, env)
                    ELSE w1
    IN Catch(body, LAMBDA x : sendMessage(x, "selection-error", env))

UpdateDoneAnswers == {"confirmar", "salvar", "ok"}

\* handleTaskUpdate of the dialogue machine
handleTaskUpdate(w, messageText, env) ==
    LET lowerCaseMessage == trim(toLowerCase(messageText))
        w1 == [w EXCEPT !.handler = Append(@, "handleTaskUpdate")]
        previousTaskInfo == [w1.ctx.taskData EXCEPT !.fullText = Append(@, messageText)]
        merged == IF env.info1 # None THEN Merge(previousTaskInfo, env.info1[1])
                  ELSE previousTaskInfo
        w2 == [w1 EXCEPT !.ctx.taskData = merged,
                         !.oracle = @ + 1,
                         !.failed = @ \/ env.info1 = None]
        body ==
            IF lowerCaseMessage \in UpdateDoneAnswers
            THEN updateTask(w1, w1.ctx.selectedTaskId, w1.ctx.taskData, env)
            ELSE IF checkForInfoChanges(Some(previousTaskInfo), merged)
            THEN sendMessage([w2 EXCEPT !.highlights =
                                 getChangeHighlights(Some(previousTaskInfo), merged)],
                             "updated-info", env)
            ELSE sendMessage(w2, "no-clear-changes", env)
    IN Catch(body, LAMBDA x : sendMessage(x, "updating-error", env))

\* handleListCommand: the list, then a context in state INITIAL
handleListCommand(w, userId, clock, env) ==
    LET userTasks == findAllByUser(w.tasks, userId)
        w1 == [w EXCEPT !.handler = Append(@, "handleListCommand")]
        body == IF env.failTasks THEN Throw(w1)
                ELSE IF Len(userTasks) = 0 THEN sendMessage(w1, "list-empty", env)
                ELSE Then(sendMessage(w1, "list", env),
                          LAMBDA x : saveOtherContext(x, ListedContext(userTasks, clock),
                                                      clock, env))
    IN Catch(body, LAMBDA x : sendMessage(x, "list-error", env))

\* handleUpdateCommand / handleDeleteCommand as the natural-language handlers
\* call them, with the bare command word: the numbered list of upcoming
\* tasks, then a context in state SELECTING_TASK
handleSelectionCommand(w, userId, operation, clock, env) ==
    LET userTasks == findAllByUser(w.tasks, userId)
        upcomingTasks == UpcomingTasks(userTasks, clock)
        body == IF env.failTasks THEN Throw(w)
                ELSE IF Len(userTasks) = 0 THEN sendMessage(w, "nothing-to-select", env)
                ELSE IF Len(upcomingTasks) = 0 THEN sendMessage(w, "nothing-upcoming", env)
                ELSE Then(sendMessage(w, "numbered-list", env),
                          LAMBDA x : saveOtherContext(
                                        x, SelectingContext(operation, upcomingTasks, clock),
                                        clock, env))
    IN Catch(body, LAMBDA x : sendMessage(x, "command-error", env))

handleUpdateCommand(w, userId, clock, env) ==
    handleSelectionCommand(w, userId, "update", clock, env)

handleDeleteCommand(w, userId, clock, env) ==
    handleSelectionCommand(w, userId, "delete", clock, env)

\* toLocaleTimeString('pt-BR', {hour: '2-digit', minute: '2-digit'}) of an
\* instant: hour and minute of the day
toLocaleTimeString(t, timezoneOffset) ==
    ((t - timezoneOffset * SecondsPerMinute) % SecondsPerDay) \div SecondsPerMinute

\* toLocaleTimeString('pt-BR', {hour: '2-digit', minute: '2-digit'}) as text,
\* for the instants of the model's tasks (the process runs in UTC)
TimeText(t) ==
    CASE toLocaleTimeString(t, 0) = 15 * 60 -> "15:00"
      [] toLocaleTimeString(t, 0) = 16 * 60 -> "16:00"
      [] toLocaleTimeString(t, 0) = 17 * 60 -> "17:00"
      [] OTHER -> "--:--"

\* The loop of handleNaturalLanguageUpdate: the first upcoming task whose
\* title the text mentions, if any
MentionedByTitle(upcomingTasks, messageText) ==
    LET hits == {i \in 1..Len(upcomingTasks) :
                    includes(toLowerCase(messageText), toLowerCase(upcomingTasks[i].title[1]))}
    IN IF hits = {} THEN None
       ELSE Some(upcomingTasks[CHOOSE i \in hits : \A j \in hits : i <= j])

\* The loop of handleNaturalLanguageDelete: the first upcoming task whose
\* title or time of day the text mentions, if any (no text of the model
\* carries the date of a task)
MentionedTask(upcomingTasks, messageText) ==
    LET lowerCaseMessage == toLowerCase(messageText)
        hits == {i \in 1..Len(upcomingTasks) :
                    \/ includes(lowerCaseMessage, toLowerCase(upcomingTasks[i].title[1]))
                    \/ includes(lowerCaseMessage,
                                TimeText(getTime(upcomingTasks[i].scheduled_date)))}
    IN IF hits = {} THEN None
       ELSE Some(upcomingTasks[CHOOSE i \in hits : \A j \in hits : i <= j])

\* handleNaturalLanguageUpdate: the task is the one the text mentions, else
\* the next upcoming one; with an extraction the update starts on it, without
\* one the numbered list is shown (crudIntent.updateInfo is left empty by the
\* intents of the model)
handleNaturalLanguageUpdate(w, userId, messageText, clock, env) ==
    LET userTasks == findAllByUser(w.tasks, userId)
        upcomingTasks == UpcomingTasks(userTasks, clock)
        mentioned == MentionedByTitle(upcomingTasks, messageText)
        taskToUpdate == IF mentioned # None THEN mentioned[1] ELSE upcomingTasks[1]
        updateInfo == env.info1
        original == [action |-> taskToUpdate.title,
                     dateTime |-> Some(NewDate(taskToUpdate.scheduled_date)),
                     location |-> None, participants |-> None, fullText |-> <<>>]
        taskData == [Merge(original, updateInfo[1]) EXCEPT !.fullText = <<messageText>>]
        context == [createInitialContext(clock) EXCEPT
                      !.state = UPDATING_TASK,
                      !.taskData = taskData,
                      !.selectedTaskId = Some(taskToUpdate.id)]
        w1 == [w EXCEPT !.handler = Append(@, "handleNaturalLanguageUpdate")]
        w2 == [w1 EXCEPT !.oracle = @ + 1, !.failed = @ \/ env.info1 = None]
        body ==
            IF env.failTasks THEN Throw(w1)
            ELSE IF Len(userTasks) = 0 THEN sendMessage(w1, "nothing-to-update", env)
            ELSE IF Len(upcomingTasks) = 0 THEN sendMessage(w1, "nothing-upcoming", env)
            ELSE IF updateInfo # None
            THEN IF checkForInfoChanges(Some(original), taskData)
                 THEN Then(sendInteractiveConfirmation(
                              [w2 EXCEPT !.highlights =
                                  getChangeHighlights(Some(original), taskData)],
                              "confirm-update", env),
                           LAMBDA x : saveOtherContext(x, context, clock, env))
                 ELSE sendMessage(w2, "no-specific-changes", env)
            ELSE handleUpdateCommand(w2, userId, clock, env)
    IN Catch(body, LAMBDA x : sendMessage(x, "natural-update-error", env))

\* handleNaturalLanguageDelete: the task the text mentions, else the list
handleNaturalLanguageDelete(w, userId, messageText, clock, env) ==
    LET userTasks == findAllByUser(w.tasks, userId)
        upcomingTasks == UpcomingTasks(userTasks, clock)
        taskToDelete == MentionedTask(upcomingTasks, messageText)
        w1 == [w EXCEPT !.handler = Append(@, "handleNaturalLanguageDelete")]
        body ==
            IF env.failTasks THEN Throw(w1)
            ELSE IF Len(userTasks) = 0 THEN sendMessage(w1, "nothing-to-delete", env)
            ELSE IF Len(upcomingTasks) = 0 THEN sendMessage(w1, "nothing-upcoming", env)
            ELSE IF taskToDelete # None
            THEN startTaskDeletion(w1, taskToDelete[1], clock, env)
            ELSE handleDeleteCommand(w1, userId, clock, env)
    IN Catch(body, LAMBDA x : sendMessage(x, "natural-delete-error", env))

-----------------------------------------------------------------------------
(* processConversation (whatsapp.service.ts): one inbound text message *)

\* Extractions the oracle may return in the dialogue machine
OracleInfos ==
    [action : {None, Some("Almoço")},
     dateTime : {None, Some(Date(54000))},
     location : {None},
     participants : {None}]

OracleResults == {None} \cup {Some(i) : i \in OracleInfos}

\* Which collaborators fail in a turn: the sender (every plain post), the
\* interactive post, the task store, the conversation store's read, its writes
Faults ==
    {{}, {"send"}, {"interactive"}, {"interactive", "send"}, {"tasks"},
     {"tasks", "send"}, {"get"}, {"write"}, {"write", "send"}}

MakeEnv(info1, info2, faults) ==
    [info1 |-> info1, info2 |-> info2,
     failSend |-> "send" \in faults,
     failInteractive |-> "interactive" \in faults,
     failTasks |-> "tasks" \in faults,
     failGet |-> "get" \in faults,
     failWrite |-> "write" \in faults]

\* The context the turn is dispatched on: the loaded one unless it is missing
\* or stale
DispatchContext(loaded, clock) ==
    IF loaded = None \/ isConversationStale(loaded[1], clock)
    THEN createInitialContext(clock)
    ELSE loaded[1]

\* The state-first dispatch (lines 151-189): the text is pushed, the state's
\* handler runs, the turn's context object is saved.  createInitialContext
\* starts every conversation in COLLECTING_INFO, and the handlers of
\* COLLECTING_INFO and CONFIRMING lead only to each other, so from an empty
\* table the other three arms are entered only on rows left in the table.
StateDispatch(w, userId, messageText, clock, env) ==
    LET w1 == [w EXCEPT !.ctx.taskData.fullText = Append(@, messageText)]
        handled ==
            CASE w1.ctx.state = COLLECTING_INFO ->
                    handleCollectingInfo(w1, messageText, env.info1, None, clock, env)
              [] w1.ctx.state = CONFIRMING ->
                    handleConfirmation(w1, userId, messageText, clock, env)
              [] w1.ctx.state = UPDATING_TASK ->
                    handleTaskUpdate(w1, messageText, env)
              [] w1.ctx.state = SELECTING_TASK ->
                    handleTaskSelection(w1, messageText, clock, env)
              [] w1.ctx.state = DELETING_TASK ->
                    handleTaskDeletion(w1, messageText, env)
    IN Then(handled, LAMBDA x : saveConversationState(x, clock, env))

\* Confidence values are in hundredths
ConfidenceThreshold == 60

\* The intent dispatch behind the INITIAL state (lines 191-281).  The turn's
\* context object is saved at the end unless the branch set it to null.
IntentDispatch(w, userId, messageText, clock, env) ==
    LET crudIntent == env.crudIntent
        w1 == [w EXCEPT !.oracle = @ + 1, !.handler = Append(@, "detectCrudIntent")]
        AsCreation ==
            handleCollectingInfo(
                [w1 EXCEPT !.ctx.taskData.fullText = Append(@, messageText),
                           !.ctx.state = COLLECTING_INFO],
                messageText, env.info1, None, clock, env)
        found == FindOne(w1.tasks, crudIntent.taskId)
        owned == ~env.failTasks /\ Len(found) = 1 /\ found[1].user_id = userId
        ById(Start(_), Natural(_)) ==
            Catch(IF env.failTasks \/ Len(found) # 1 THEN Throw(w1)
                  ELSE IF owned THEN Start(found[1])
                  ELSE sendMessage(w1, "not-yours", env),
                  Natural)
        UpdateById ==
            ById(LAMBDA task : startTaskUpdate(w1, task, clock, env),
                 LAMBDA x : handleNaturalLanguageUpdate(x, userId, messageText, clock, env))
        DeleteById ==
            ById(LAMBDA task : startTaskDeletion(w1, task, clock, env),
                 LAMBDA x : handleNaturalLanguageDelete(x, userId, messageText, clock, env))
        StartedUpdate == owned /\ ~startTaskUpdate(w1, found[1], clock, env).threw
        StartedDeletion == owned /\ ~startTaskDeletion(w1, found[1], clock, env).threw
        Save(x) == saveConversationState(x, clock, env)
    IN IF crudIntent.confidence > ConfidenceThreshold
       THEN CASE crudIntent.operation = "create" -> Then(AsCreation, Save)
              [] crudIntent.operation = "read" ->
                    Then(handleListCommand(w1, userId, clock, env),
                         LAMBDA x : Save([x EXCEPT !.ctx = createInitialContext(clock)]))
              [] crudIntent.operation = "update" ->
                    IF crudIntent.taskId # None
                    THEN IF StartedUpdate THEN UpdateById ELSE Then(UpdateById, Save)
                    ELSE Then(handleNaturalLanguageUpdate(w1, userId, messageText, clock, env),
                              Save)
              [] crudIntent.operation = "delete" ->
                    IF crudIntent.taskId # None
                    THEN IF StartedDeletion THEN DeleteById ELSE Then(DeleteById, Save)
                    ELSE Then(handleNaturalLanguageDelete(w1, userId, messageText, clock, env),
                              Save)
              [] OTHER -> Then(AsCreation, Save)
       ELSE Then(AsCreation, Save)

\* Variant: a confident intent is dispatched on before the stored state
Turn_IntentFirst(w, userId, messageText, clock, env) ==
    LET lowerCaseMessage == trim(toLowerCase(messageText))
        body ==
            IF lowerCaseMessage \in CancelKeywords THEN handleCancelCommand(w, env)
            ELSE IF lowerCaseMessage \in RestartKeywords THEN handleRestartCommand(w, clock, env)
            ELSE IF lowerCaseMessage \in HelpKeywords THEN handleHelpCommand(w, env)
            ELSE IF w.ctx.state # INITIAL /\ env.crudIntent.confidence <= ConfidenceThreshold
            THEN StateDispatch(w, userId, messageText, clock, env)
            ELSE IntentDispatch(w, userId, messageText, clock, env)
    IN Catch(body, LAMBDA x : sendMessage(x, "apology", env))

Turn(w, userId, messageText, clock, env) ==
    LET lowerCaseMessage == trim(toLowerCase(messageText))
        body ==
            IF lowerCaseMessage \in CancelKeywords THEN handleCancelCommand(w, env)
            ELSE IF lowerCaseMessage \in RestartKeywords THEN handleRestartCommand(w, clock, env)
            ELSE IF lowerCaseMessage \in HelpKeywords THEN handleHelpCommand(w, env)
            ELSE IF w.ctx.state # INITIAL
            THEN StateDispatch(w, userId, messageText, clock, env)
            ELSE IntentDispatch(w, userId, messageText, clock, env)
    IN Catch(body, LAMBDA x : sendMessage(x, "apology", env))

\* What the turn is observed to have done (the state handed to the claims)
Observation(from, messageText, loaded, context, w) ==
    [user |-> from,
     text |-> messageText,
     dispatched |-> IF w.handler # <<>> /\ w.handler[1] \in
                          {"handleCancelCommand", "handleRestartCommand", "handleHelpCommand"}
                    THEN "keyword" ELSE context.state,
     age |-> IF loaded = None THEN -1 ELSE now - loaded[1].lastUpdateTime,
     fresh |-> context = createInitialContext(now),
     reused |-> loaded # None /\ context = loaded[1],
     created |-> w.created,
     sent |-> w.sent,
     oracle |-> w.oracle,
     handler |-> w.handler,
     saved |-> w.saved,
     failed |-> w.failed,
     threw |-> w.threw]

processConversation(from, messageText, env) ==
    LET loaded == getConversationState(store[from], env)
        context == DispatchContext(loaded, now)
        w0 == [ctx |-> context, row |-> store[from], tasks |-> tasks,
               created |-> <<>>, updated |-> <<>>, removed |-> <<>>,
               highlights |-> <<>>, selected |-> <<>>, sent |-> <<>>, oracle |-> 0,
               handler |-> <<>>,
               saved |-> FALSE, failed |-> env.failGet, threw |-> FALSE]
    IN /\ Len(context.taskData.fullText) + 2 <= MaxFullText
       /\ \E w \in {Turn(w0, from, messageText, now, env)} :
            /\ Len(w.tasks) <= MaxTasks
            /\ store' = [store EXCEPT ![from] = w.row]
            /\ tasks' = w.tasks
            /\ last' = Observation(from, messageText, loaded, context, w)
       /\ UNCHANGED <<now, histories, outbox, pure>>

\* The oracle is consulted once by handleCollectingInfo and, in CONFIRMING on
\* a text that is neither affirmative nor negative, once more before it
IsKeyword(messageText) ==
    trim(toLowerCase(messageText)) \in CancelKeywords \cup RestartKeywords \cup HelpKeywords

\* In CONFIRMING the slot model is complete already, and both answers are
\* drawn from: failure, nothing extracted, everything extracted
ConfirmingAnswers ==
    {None,
     Some([action |-> None, dateTime |-> None, location |-> None, participants |-> None]),
     Some([action |-> Some("Almoço"), dateTime |-> Some(Date(54000)),
           location |-> None, participants |-> None])}

FirstAnswers(context, messageText) ==
    IF IsKeyword(messageText) THEN {None}
    ELSE IF context.state = CONFIRMING
         THEN IF IsAffirmative(toLowerCase(messageText)) \/ IsNegative(toLowerCase(messageText))
              THEN {None} ELSE ConfirmingAnswers
         ELSE OracleResults

SecondAnswers(context, messageText) ==
    IF FirstAnswers(context, messageText) # {None} /\ context.state = CONFIRMING
    THEN ConfirmingAnswers
    ELSE {None}

\* A fault is drawn only for a collaborator the turn can call: the task
\* store only on an affirmative reply in CONFIRMING, the interactive message
\* only where handleCollectingInfo runs
CanCall(faults, context, messageText) ==
    /\ "tasks" \in faults =>
          /\ ~IsKeyword(messageText)
          /\ context.state = CONFIRMING
          /\ IsAffirmative(toLowerCase(messageText))
    /\ "interactive" \in faults => FirstAnswers(context, messageText) # {None}

\* Users with inbound traffic
ActiveUsers == {"u1"}

Inbound ==
    \E from \in ActiveUsers, messageText \in InboundTexts, faults \in Faults :
        LET context == DispatchContext(
                           getConversationState(store[from], MakeEnv(None, None, faults)), now)
        IN /\ CanCall(faults, context, messageText)
           /\ \E info1 \in FirstAnswers(context, messageText),
                 info2 \in SecondAnswers(context, messageText) :
                   processConversation(from, messageText, MakeEnv(info1, info2, faults))

TickSteps == {StaleMinutes * SecondsPerMinute, StaleMinutes * SecondsPerMinute + 1}

Tick == \E d \in TickSteps :
           /\ now + d <= MaxNow
           /\ now' = now + d
           /\ UNCHANGED <<store, tasks, last, histories, outbox, pure>>

NoTurn == [user |-> "none"]

Init ==
    /\ store = [u \in Users |-> Absent]
    /\ now = 0
    /\ tasks = <<>>
    /\ last = NoTurn
    /\ histories = [u \in Users |-> <<>>]
    /\ outbox = [u \in Users |-> <<>>]
    /\ pure = <<>>

Next == Inbound \/ Tick

Spec == Init /\ [][Next]_vars

-----------------------------------------------------------------------------
(* The conversational service (src/unnamed/part_002).  Every turn is       *)
(* answered in one shot from the oracle's analysis; the only memory is the  *)
(* in-process conversationHistories map.  Its world record:                 *)
(*   hist     the user's history.messages                                   *)
(*   row      the user's conversation_states row                            *)
(*   tasks    the tasks table, created the DTOs passed to createTask        *)
(*   reply    the responseText computed by the intent handler               *)
(*   calls    the sendMessage calls of the turn, each with whether the HTTP *)
(*            post was invoked                                              *)
(*   seen     for each of these calls, the history.messages it read         *)
(*   pushed   the messages added to the history in this turn                *)
(*   consulted the histories handed to analyzeConversation in this turn     *)

HistoryLimit == 10

\* An outbound or inbound text; arg carries the rows a listing is built from
Msg(kind, arg) == [kind |-> kind, arg |-> arg]
Text(kind) == Msg(kind, <<>>)

IntelTexts == {"cancelar", "reiniciar", "ajuda", "listar", "oi"}

\* history.messages.slice(-n)
SliceLast(seq, n) ==
    IF Len(seq) <= n THEN seq ELSE SubSeq(seq, Len(seq) - n + 1, Len(seq))

\* Variant: the oldest ten messages are kept
addToConversationHistory_KeepOldest(w, role, content) ==
    LET pushed == Append(w.hist, [role |-> role, content |-> content])
    IN [w EXCEPT !.hist = IF Len(pushed) > HistoryLimit
                          THEN SubSeq(pushed, 1, HistoryLimit) ELSE pushed,
                 !.pushed = Append(@, [role |-> role, content |-> content])]

addToConversationHistory(w, role, content) ==
    LET pushed == Append(w.hist, [role |-> role, content |-> content])
    IN [w EXCEPT !.hist = IF Len(pushed) > HistoryLimit
                          THEN SliceLast(pushed, HistoryLimit) ELSE pushed,
                 !.pushed = Append(@, [role |-> role, content |-> content])]

\* history.messages.find(m => m.role === 'assistant'): the first match
FindAssistant(messages) ==
    LET hits == {i \in 1..Len(messages) : messages[i].role = "assistant"}
    IN IF hits = {} THEN None
       ELSE Some(messages[CHOOSE i \in hits : \A j \in hits : i <= j])

\* sendMessage of the conversational service, with its duplicate guard
IntelSendMessage(w, message, env) ==
    LET lastMessage == FindAssistant(w.hist)
    IN IF Len(w.hist) > 0 /\ lastMessage # None /\ lastMessage[1].content = message
       THEN [w EXCEPT !.calls = Append(@, [text |-> message, posted |-> FALSE]),
                      !.seen = Append(@, w.hist)]
       ELSE LET posted == [w EXCEPT !.calls = Append(@, [text |-> message, posted |-> TRUE]),
                                    !.seen = Append(@, w.hist)]
            IN IF env.failSend THEN Throw(posted) ELSE posted

\* The conflict filter of handleTaskUpdate.  Instants are in seconds.
ConflictHours == 2

\* getFullYear / getMonth / getDate: the calendar day in the process's zone
\* (getTimezoneOffset() minutes behind UTC)
LocalDay(t, timezoneOffset) == (t - timezoneOffset * SecondsPerMinute) \div SecondsPerDay

\* Math.abs(a - b)
AbsDiff(a, b) == IF a >= b THEN a - b ELSE b - a

\* Variant: two tasks exactly two hours apart already conflict
IsNear_Inclusive(taskDate, newDate, timezoneOffset) ==
    /\ AbsDiff(taskDate, newDate) <= ConflictHours * SecondsPerHour
    /\ LocalDay(taskDate, timezoneOffset) = LocalDay(newDate, timezoneOffset)

\* hoursDiff < 2 && same date, month and year
IsNear(taskDate, newDate, timezoneOffset) ==
    /\ AbsDiff(taskDate, newDate) < ConflictHours * SecondsPerHour
    /\ LocalDay(taskDate, timezoneOffset) = LocalDay(newDate, timezoneOffset)

\* userTasks.filter(...): the ids of the conflicting tasks, in list order
conflictingTasks(userTasks, taskToUpdateId, newDate, timezoneOffset) ==
    SelectSeq(userTasks,
              LAMBDA task : /\ task.id # taskToUpdateId
                            /\ IsNear(task.scheduledDate, newDate, timezoneOffset))

\* mapDbTaskToEntity: the Task the service hands out for a row
mapDbTaskToEntity(row) ==
    [id |-> row.id, userId |-> row.user_id, title |-> row.title,
     scheduledDate |-> getTime(row.scheduled_date)]

\* Variant: a conflict holds the update back
IntelHandleTaskUpdate_Blocking(w, analysis, userTasks, env) ==
    LET referenced == analysis.referencedTask
        found == SelectSeq(userTasks, LAMBDA t : referenced # None /\ t.id = referenced[1])
        changes == analysis.changes
        newDate == IF TruthyObj(changes.scheduledDate)
                   THEN Some(NewDate(changes.scheduledDate[1])) ELSE None
        updateData == [title |-> IF TruthyStr(changes.title) THEN changes.title ELSE None,
                       scheduledDate |-> newDate]
        conflicts == IF newDate = None THEN <<>>
                     ELSE conflictingTasks(userTasks, found[1].id, getTime(newDate[1]),
                                           env.timezoneOffset)
    IN IF referenced = None THEN [w EXCEPT !.reply = Text("which-task")]
       ELSE IF found = <<>> THEN [w EXCEPT !.reply = Text("task-not-found")]
       ELSE IF changes.title = None /\ changes.scheduledDate = None
       THEN [w EXCEPT !.reply = Text("what-to-change")]
       ELSE IF conflicts # <<>>
       THEN [w EXCEPT !.reply = Msg("conflict", <<conflicts[1].id>>)]
       ELSE Catch([TasksServiceUpdate(w, Some(found[1].id), updateData, env)
                      EXCEPT !.reply = Text("updated")],
                  LAMBDA x : [x EXCEPT !.reply = Text("update-error")])

\* handleTaskUpdate of the conversational service: the referenced task is
\* updated with the changes of the analysis; a conflict is only mentioned
IntelHandleTaskUpdate(w, analysis, userTasks, env) ==
    LET referenced == analysis.referencedTask
        found == SelectSeq(userTasks, LAMBDA t : referenced # None /\ t.id = referenced[1])
        taskToUpdate == found[1]
        changes == analysis.changes
        newDate == IF TruthyObj(changes.scheduledDate)
                   THEN Some(NewDate(changes.scheduledDate[1])) ELSE None
        updateData == [title |-> IF TruthyStr(changes.title) THEN changes.title ELSE None,
                       scheduledDate |-> newDate]
        conflicts == IF newDate = None THEN <<>>
                     ELSE conflictingTasks(userTasks, taskToUpdate.id, getTime(newDate[1]),
                                           env.timezoneOffset)
        titleChanged == TruthyStr(updateData.title) /\ updateData.title # taskToUpdate.title
        timeChanged ==
            /\ newDate # None
            /\ toLocaleTimeString(taskToUpdate.scheduledDate, env.timezoneOffset)
                  # toLocaleTimeString(getTime(newDate[1]), env.timezoneOffset)
        updated == TasksServiceUpdate(w, Some(taskToUpdate.id), updateData, env)
    IN IF referenced = None THEN [w EXCEPT !.reply = Text("which-task")]
       ELSE IF found = <<>> THEN [w EXCEPT !.reply = Text("task-not-found")]
       ELSE IF changes.title = None /\ changes.scheduledDate = None
       THEN [w EXCEPT !.reply = Text("what-to-change")]
       ELSE Catch([updated EXCEPT !.reply =
                      IF conflicts # <<>> THEN Msg("updated-near", <<conflicts[1].id>>)
                      ELSE IF titleChanged \/ timeChanged THEN Text("updated")
                      ELSE Text("nothing-to-change")],
                  LAMBDA x : [x EXCEPT !.reply = Text("update-error")])

\* handleTaskDeletion of the conversational service: the referenced task is
\* removed at once
IntelHandleTaskDeletion(w, analysis, userTasks, env) ==
    LET referenced == analysis.referencedTask
        found == SelectSeq(userTasks, LAMBDA t : referenced # None /\ t.id = referenced[1])
    IN IF referenced = None THEN [w EXCEPT !.reply = Text("which-task-to-delete")]
       ELSE IF found = <<>> THEN [w EXCEPT !.reply = Text("task-not-found")]
       ELSE Catch([TasksServiceRemove(w, Some(found[1].id), env)
                      EXCEPT !.reply = Text("deleted")],
                  LAMBDA x : [x EXCEPT !.reply = Text("delete-error")])

\* handleTaskCreation: the instant handed to the task store is the extracted
\* one moved by the process's getTimezoneOffset() (minutes; instants are in
\* seconds here)
IntelHandleTaskCreation(w, userId, analysis, env) ==
    LET newTaskInfo == analysis.newTaskInfo
    IN IF ~TruthyStr(newTaskInfo.title) \/ ~TruthyObj(newTaskInfo.scheduledDate)
       THEN [w EXCEPT !.reply = Text("need-info")]
       ELSE LET localDate == newTaskInfo.scheduledDate[1]
                utcDate == Date(localDate.t + env.timezoneOffset * SecondsPerMinute)
                dto == [userId |-> userId, title |-> newTaskInfo.title,
                        scheduledDate |-> Some(utcDate)]
            IN IF env.failTasks
               THEN [w EXCEPT !.failed = TRUE, !.reply = Text("create-error")]
               ELSE [TasksServiceCreateTask(w, dto) EXCEPT !.reply = Text("created")]

\* Confidence values are in hundredths
FallbackConfidence == 50

\* Variant: a failed oracle call lets the prepared analysis through
analyzeConversation_Unguarded(env) == env.analysis

\* analyzeConversation: the oracle's analysis, or the fixed one its catch
\* block returns when the call or the parse fails
analyzeConversation(env) ==
    IF env.failOracle
    THEN [intent |-> "clarify", confidence |-> FallbackConfidence,
          newTaskInfo |-> [title |-> None, scheduledDate |-> None],
          suggestedResponseText |-> Some("more-details")]
    ELSE env.analysis

processMessageIntelligently(w, from, userId, messageText, env) ==
    LET userAdded == addToConversationHistory(w, "user", Text(messageText))
        w1 == [userAdded EXCEPT !.analysed = Some(analyzeConversation(env)),
                                !.consulted = Append(@, userAdded.hist),
                                !.oracleFailed = env.failOracle]
        analysis == analyzeConversation(env)
        userTasks == LET rows == findAllByUser(w.tasks, userId)
                     IN [k \in 1..Len(rows) |-> mapDbTaskToEntity(rows[k])]
        answered ==
            CASE analysis.intent = "update" ->
                    IntelHandleTaskUpdate(w1, analysis, userTasks, env)
              [] analysis.intent = "create" ->
                    IntelHandleTaskCreation(w1, userId, analysis, env)
              [] analysis.intent = "delete" ->
                    IntelHandleTaskDeletion(w1, analysis, userTasks, env)
              [] OTHER ->
                    [w1 EXCEPT !.reply =
                        IF TruthyStr(analysis.suggestedResponseText)
                        THEN Text(analysis.suggestedResponseText[1])
                        ELSE Text("not-understood")]
        body == IF env.failTasksRead
                THEN Throw(userAdded)
                ELSE Then(IntelSendMessage(answered, answered.reply, env),
                          LAMBDA x : addToConversationHistory(x, "assistant", x.reply))
    IN Catch(body, LAMBDA x : IntelSendMessage(x, Text("problem"), env))

IntelHandleCancelCommand(w, env) ==
    Then(clearConversationState([w EXCEPT !.hist = <<>>], env),
         LAMBDA x : IntelSendMessage(x, Text("forgot"), env))

IntelHandleRestartCommand(w, env) ==
    Then(clearConversationState([w EXCEPT !.hist = <<>>], env),
         LAMBDA x : IntelSendMessage(x, Text("restarted"), env))

IntelHandleHelpCommand(w, env) == IntelSendMessage(w, Text("help"), env)

IntelHandleListCommand(w, userId, env) ==
    LET userTasks == findAllByUser(w.tasks, userId)
        body == IF env.failTasksRead THEN Throw(w)
                ELSE IF Len(userTasks) = 0
                     THEN IntelSendMessage(w, Text("list-empty"), env)
                     ELSE IntelSendMessage(w, Msg("list", userTasks), env)
    IN Catch(body, LAMBDA x : IntelSendMessage(x, Text("list-error"), env))

IntelTurn(w, from, messageText, env) ==
    LET lowerCaseMessage == trim(toLowerCase(messageText))
        body ==
            CASE lowerCaseMessage \in CancelKeywords -> IntelHandleCancelCommand(w, env)
              [] lowerCaseMessage \in RestartKeywords -> IntelHandleRestartCommand(w, env)
              [] lowerCaseMessage \in HelpKeywords -> IntelHandleHelpCommand(w, env)
              [] lowerCaseMessage \in ListKeywords -> IntelHandleListCommand(w, from, env)
              [] OTHER -> processMessageIntelligently(w, from, from, messageText, env)
    IN Catch(body, LAMBDA x : IntelSendMessage(x, Text("apology"), env))

\* What the oracle's analyzeConversation may answer (its own failure is
\* answered by a fixed clarify analysis, one more suggested text).
NewTaskInfos ==
    {[title |-> None, scheduledDate |-> None],
     [title |-> Some("Almoço"), scheduledDate |-> None],
     [title |-> Some("Almoço"), scheduledDate |-> Some(Date(54000))]}

Confidences == {50, 90}

Analyses ==
    {[intent |-> "create", confidence |-> c, newTaskInfo |-> i,
      suggestedResponseText |-> None]
        : i \in NewTaskInfos, c \in Confidences}
    \cup {[intent |-> "clarify", confidence |-> FallbackConfidence,
           newTaskInfo |-> [title |-> None, scheduledDate |-> None],
           suggestedResponseText |-> t]
        : t \in {None, Some("details")}}

TimezoneOffsets == {0, 180}

IntelFaults == {{}, {"send"}, {"tasks"}, {"read"}, {"write"}, {"oracle"}}

IntelEnv(analysis, timezoneOffset, faults) ==
    [analysis |-> analysis,
     timezoneOffset |-> timezoneOffset,
     failSend |-> "send" \in faults,
     failTasks |-> "tasks" \in faults,
     failTasksRead |-> "read" \in faults,
     failWrite |-> "write" \in faults,
     failOracle |-> "oracle" \in faults]

IntelObservation(from, messageText, env, w) ==
    [user |-> from,
     text |-> messageText,
     before |-> outbox[from],
     calls |-> w.calls,
     seen |-> w.seen,
     pushed |-> w.pushed,
     consulted |-> w.consulted,
     tasksBefore |-> tasks,
     rowBefore |-> store[from],
     created |-> w.created,
     updated |-> w.updated,
     removed |-> w.removed,
     analysis |-> env.analysis,
     analysed |-> w.analysed,
     oracleFailed |-> w.oracleFailed,
     emptyBefore |-> tasks = <<>> /\ store[from] = Absent /\ histories[from] = <<>>,
     failed |-> w.failed]

\* One inbound message; historyBound caps the history the model follows
IntelStep(from, messageText, env, historyBound, taskBound) ==
    LET w0 == [hist |-> histories[from], row |-> store[from], tasks |-> tasks,
               created |-> <<>>, updated |-> <<>>, removed |-> <<>>,
               reply |-> Text(""), calls |-> <<>>, seen |-> <<>>,
               pushed |-> <<>>, consulted |-> <<>>,
               analysed |-> None, oracleFailed |-> FALSE,
               saved |-> FALSE, failed |-> FALSE, threw |-> FALSE]
    IN \E w \in {IntelTurn(w0, from, messageText, env)} :
          /\ Len(w.hist) <= historyBound
          /\ Len(w.tasks) <= taskBound
          /\ histories' = [histories EXCEPT ![from] = w.hist]
          /\ outbox' = [outbox EXCEPT ![from] = SliceLast(w.calls, 1)]
          /\ store' = [store EXCEPT ![from] = w.row]
          /\ tasks' = w.tasks
          /\ last' = IntelObservation(from, messageText, env, w)
          /\ UNCHANGED <<now, pure>>

IntelProcessConversation(from, messageText, env) ==
    IntelStep(from, messageText, env, MaxHistory, MaxTasks)

IntelInbound ==
    \E from \in ActiveUsers, messageText \in IntelTexts, faults \in IntelFaults :
        \E analysis \in IF IsKeyword(messageText) \/ trim(toLowerCase(messageText)) \in ListKeywords
                        THEN {CHOOSE a \in Analyses : TRUE} ELSE Analyses,
           timezoneOffset \in TimezoneOffsets :
            IntelProcessConversation(from, messageText, IntelEnv(analysis, timezoneOffset, faults))

NextIntel == IntelInbound

SpecIntel == Init /\ [][NextIntel]_vars

-----------------------------------------------------------------------------
(* The outbound duplicate guard over longer histories: turns of the         *)
(* conversational service whose replies are three different plain texts     *)
(* (a request for the missing details, the oracle's suggested text, the     *)
(* fixed not-understood text), and the help command. No task is created.    *)

MaxGuardHistory == 6

GuardTexts == {"oi", "ajuda"}

GuardAnalyses ==
    {a \in Analyses : a.newTaskInfo.title = None /\ a.confidence = FallbackConfidence}

GuardFaults == {{}, {"send"}}

GuardInbound ==
    \E from \in ActiveUsers, messageText \in GuardTexts, faults \in GuardFaults :
        \E analysis \in IF IsKeyword(messageText)
                        THEN {CHOOSE a \in GuardAnalyses : TRUE} ELSE GuardAnalyses :
            IntelStep(from, messageText, IntelEnv(analysis, 0, faults), MaxGuardHistory, MaxTasks)

NextGuard == GuardInbound

SpecGuard == Init /\ [][NextGuard]_vars

-----------------------------------------------------------------------------
(* The history window: enough turns of the conversational service for the   *)
(* history to pass its limit of ten messages.  A turn adds the user's text  *)
(* and the reply, or the user's text alone when the read of the user's      *)
(* tasks fails; cancel empties the history.                                 *)

MaxWindowHistory == 12

WindowTexts == {"oi", "cancelar"}

WindowAnalyses == {a \in Analyses : a.intent = "clarify"}

WindowFaults == {{}, {"read"}}

WindowInbound ==
    \E from \in ActiveUsers, messageText \in WindowTexts, faults \in WindowFaults :
        \E analysis \in IF IsKeyword(messageText)
                        THEN {CHOOSE a \in WindowAnalyses : TRUE} ELSE WindowAnalyses :
            IntelStep(from, messageText, IntelEnv(analysis, 0, faults),
                      MaxWindowHistory, MaxTasks)

NextWindow == WindowInbound

SpecWindow == Init /\ [][NextWindow]_vars

-----------------------------------------------------------------------------
(* The conversational service editing existing tasks: the user has three    *)
(* tasks an hour apart, and the oracle analyses each message as an update   *)
(* or a deletion, naming a task of the user, an unknown task or none.       *)

EditTasks ==
    <<[id |-> "t1", user_id |-> "u1", title |-> Some("Almoço"),
       scheduled_date |-> IsoString(54000)],
      [id |-> "t2", user_id |-> "u1", title |-> Some("Reunião"),
       scheduled_date |-> IsoString(57600)],
      [id |-> "t3", user_id |-> "u1", title |-> Some("Dentista"),
       scheduled_date |-> IsoString(61200)]>>

\* The changes of an analysis: none, a title, or a new time that is near two
\* tasks, near one, or near none
EditChanges ==
    {[title |-> None, scheduledDate |-> None],
     [title |-> Some("Jantar"), scheduledDate |-> None]}
    \cup {[title |-> None, scheduledDate |-> Some(IsoString(t))]
             : t \in {55800, 66600, 79200}}

EditAnalyses ==
    {[intent |-> i, confidence |-> 90, referencedTask |-> r, changes |-> c,
      newTaskInfo |-> [title |-> None, scheduledDate |-> None],
      suggestedResponseText |-> None]
        : i \in {"update", "delete"}, r \in {None, Some("t1"), Some("t3"), Some("t9")},
          c \in EditChanges}

EditFaults == {{}, {"tasks"}, {"send"}}

EditInbound ==
    \E from \in ActiveUsers, analysis \in EditAnalyses, faults \in EditFaults :
        /\ analysis.intent = "delete" => analysis.changes = [title |-> None, scheduledDate |-> None]
        /\ IntelStep(from, "oi", IntelEnv(analysis, 0, faults), MaxHistory, Len(EditTasks))

InitEdit ==
    /\ store = [u \in Users |-> Absent]
    /\ now = 0
    /\ tasks = EditTasks
    /\ last = NoTurn
    /\ histories = [u \in Users |-> <<>>]
    /\ outbox = [u \in Users |-> <<>>]
    /\ pure = <<>>

NextEdit == EditInbound

SpecEdit == InitEdit /\ [][NextEdit]_vars

-----------------------------------------------------------------------------
(* The Conversation State Store on its own: saveConversationState,          *)
(* getConversationState and clearConversationState applied to contexts      *)
(* drawn from a small set.  pure remembers what was written last.           *)

NoFaults == MakeEnv(None, None, {})

SlotModels ==
    [action : {None, Some("Almoço")},
     dateTime : {None, Some(Date(54000))},
     location : {None, Some("Restaurante")},
     participants : {None, Some(<<"Ana">>)},
     fullText : {<<>>}]

StoreContexts ==
    [state : {COLLECTING_INFO, SELECTING_TASK, UPDATING_TASK},
     taskData : {EmptyTaskData,
                 [EmptyTaskData EXCEPT !.action = Some("Almoço"),
                                       !.dateTime = Some(Date(54000))]},
     lastUpdateTime : {0},
     selectedTaskId : {None, Some("t1")},
     operation : {None, Some("update")},
     tasks : {None, Some(<<[id |-> "t1", title |-> "Almoço"]>>)}]

StoreWorld(from, context) ==
    [ctx |-> context, row |-> store[from], saved |-> FALSE,
     failed |-> FALSE, threw |-> FALSE]

StorePut ==
    \E from \in ActiveUsers, context \in StoreContexts, fail \in BOOLEAN :
        \E w \in {saveConversationState(StoreWorld(from, context), now,
                                        [NoFaults EXCEPT !.failWrite = fail])} :
            /\ store' = [store EXCEPT ![from] = w.row]
            /\ pure' = [op |-> "put", user |-> from, failed |-> w.threw,
                        written |-> IF w.threw THEN pure.written ELSE Some(context),
                        got |-> None]
            /\ UNCHANGED <<now, tasks, last, histories, outbox>>

StoreDelete ==
    \E from \in ActiveUsers, fail \in BOOLEAN :
        \E w \in {clearConversationState(StoreWorld(from, createInitialContext(now)),
                                         [NoFaults EXCEPT !.failWrite = fail])} :
            /\ store' = [store EXCEPT ![from] = w.row]
            /\ pure' = [op |-> "delete", user |-> from, failed |-> w.threw,
                        written |-> IF w.threw THEN pure.written ELSE None,
                        got |-> None]
            /\ UNCHANGED <<now, tasks, last, histories, outbox>>

StoreGet ==
    \E from \in ActiveUsers, fail \in BOOLEAN :
        /\ pure' = [op |-> "get", user |-> from, failed |-> fail,
                    written |-> pure.written,
                    got |-> getConversationState(store[from],
                                                 [NoFaults EXCEPT !.failGet = fail])]
        /\ UNCHANGED <<store, now, tasks, last, histories, outbox>>

InitStore ==
    /\ store = [u \in Users |-> Absent]
    /\ now = 0
    /\ tasks = <<>>
    /\ last = NoTurn
    /\ histories = [u \in Users |-> <<>>]
    /\ outbox = [u \in Users |-> <<>>]
    /\ pure = [op |-> "none", user |-> "none", failed |-> FALSE,
               written |-> None, got |-> None]

NextStore == StorePut \/ StoreDelete \/ StoreGet

SpecStore == InitStore /\ [][NextStore]_vars

-----------------------------------------------------------------------------
(* The slot merge on its own: Merge applied to a slot model and an          *)
(* extraction drawn from small sets.                                        *)

Extractions ==
    [action : {None, Some(""), Some("Jantar")},
     dateTime : {None, Some(Date(57600))},
     location : {None, Some("Casa")},
     participants : {None, Some(<<>>), Some(<<"Bia">>)}]

EmptyExtraction ==
    [action |-> None, dateTime |-> None, location |-> None, participants |-> None]

ApplyMerge ==
    /\ pure.stage = "input"
    /\ pure' = [pure EXCEPT !.stage = "merged", !.merged = Merge(pure.P, pure.N)]
    /\ UNCHANGED <<store, now, tasks, last, histories, outbox>>

InitMerge ==
    /\ store = [u \in Users |-> Absent]
    /\ now = 0
    /\ tasks = <<>>
    /\ last = NoTurn
    /\ histories = [u \in Users |-> <<>>]
    /\ outbox = [u \in Users |-> <<>>]
    /\ \E P \in SlotModels, N \in Extractions :
          pure = [stage |-> "input", P |-> P, N |-> N, merged |-> P]

NextMerge == ApplyMerge

SpecMerge == InitMerge /\ [][NextMerge]_vars

-----------------------------------------------------------------------------
(* Change detection on its own: checkForInfoChanges and getChangeHighlights *)
(* applied to pairs of slot models.  Instants are in seconds.               *)

DiffModels ==
    [action : {None, Some("Almoço")},
     dateTime : {None, Some(Date(54000)), Some(Date(54030)), Some(IsoString(57600))},
     location : {None, Some("Casa")},
     participants : {None, Some(<<>>), Some(<<"Ana", "Bia">>), Some(<<"Bia", "Ana">>)},
     fullText : {<<>>}]

ApplyDiff ==
    /\ pure.stage = "input"
    /\ pure' = [pure EXCEPT
                  !.stage = "diffed",
                  !.forward = getChangeHighlights(Some(pure.P), pure.Q),
                  !.backward = getChangeHighlights(Some(pure.Q), pure.P),
                  !.self = getChangeHighlights(Some(pure.P), pure.P),
                  !.changed = checkForInfoChanges(Some(pure.P), pure.Q)]
    /\ UNCHANGED <<store, now, tasks, last, histories, outbox>>

InitDiff ==
    /\ store = [u \in Users |-> Absent]
    /\ now = 0
    /\ tasks = <<>>
    /\ last = NoTurn
    /\ histories = [u \in Users |-> <<>>]
    /\ outbox = [u \in Users |-> <<>>]
    /\ \E P \in DiffModels, Q \in DiffModels :
          pure = [stage |-> "input", P |-> P, Q |-> Q, forward |-> <<>>,
                  backward |-> <<>>, self |-> <<>>, changed |-> FALSE]

NextDiff == ApplyDiff

SpecDiff == InitDiff /\ [][NextDiff]_vars

-----------------------------------------------------------------------------
(* The conflict filter of the conversational service's handleTaskUpdate on  *)
(* its own (part_002, lines 366-381), applied to a task list, the task      *)
(* being edited and the new date.                                           *)

ConflictInstants == {75600, 79200, 82800, 84600, 88200, 90000}

ConflictTaskLists ==
    {<<[id |-> "t1", scheduledDate |-> a], [id |-> "t2", scheduledDate |-> b]>>
        : a \in ConflictInstants, b \in ConflictInstants}

ApplyConflictFilter ==
    /\ pure.stage = "input"
    /\ pure' = [pure EXCEPT
                  !.stage = "filtered",
                  !.conflicts = conflictingTasks(pure.userTasks, pure.editing,
                                                 pure.newDate, pure.timezoneOffset),
                  !.swapped = [i \in 1..Len(pure.userTasks) |->
                                  IsNear(pure.newDate, pure.userTasks[i].scheduledDate,
                                         pure.timezoneOffset)]]
    /\ UNCHANGED <<store, now, tasks, last, histories, outbox>>

InitConflict ==
    /\ store = [u \in Users |-> Absent]
    /\ now = 0
    /\ tasks = <<>>
    /\ last = NoTurn
    /\ histories = [u \in Users |-> <<>>]
    /\ outbox = [u \in Users |-> <<>>]
    /\ \E userTasks \in ConflictTaskLists, editing \in {"t1", "t2"},
          newDate \in ConflictInstants, timezoneOffset \in TimezoneOffsets :
          pure = [stage |-> "input", userTasks |-> userTasks, editing |-> editing,
                  newDate |-> newDate, timezoneOffset |-> timezoneOffset,
                  conflicts |-> <<>>, swapped |-> [i \in 1..Len(userTasks) |-> FALSE]]

NextConflict == ApplyConflictFilter

SpecConflict == InitConflict /\ [][NextConflict]_vars

-----------------------------------------------------------------------------
(* Two turns of one user running concurrently against conversation_states.  *)
(* A turn reads the row (getConversationState), decides its context, and    *)
(* saves it; saveConversationState is a select of the row's id followed by  *)
(* an update or an insert (conversation.service.ts, lines 40-95), and the   *)
(* other turn may run between any two of these awaits.  phone_number is     *)
(* unique (init.sql, line 210).                                             *)

RaceTurns == {1, 2}
RaceUser == "u1"
RaceTexts == <<"almoço", "12:30">>

\* The context a turn decides on: the dispatched one with the turn's text
\* pushed and the state its handler leaves
RaceDecide(loaded, messageText, state) ==
    [DispatchContext(loaded, now) EXCEPT
        !.taskData.fullText = Append(@, messageText),
        !.state = state]

RaceGet(t) ==
    /\ pure[t].pc = "get"
    /\ \E state \in {COLLECTING_INFO, CONFIRMING} :
          pure' = [pure EXCEPT
                     ![t].pc = "select",
                     ![t].context = Some(RaceDecide(getConversationState(store[RaceUser], NoFaults),
                                                    RaceTexts[t], state))]
    /\ UNCHANGED <<store, now, tasks, last, histories, outbox>>

\* select('id').eq('phone_number', phoneNumber).maybeSingle()
RaceSelect(t) ==
    /\ pure[t].pc = "select"
    /\ pure' = [pure EXCEPT ![t].pc = "write",
                            ![t].existingData = store[RaceUser] # Absent]
    /\ UNCHANGED <<store, now, tasks, last, histories, outbox>>

\* update(saveData).eq('phone_number', phoneNumber) changes the row if there
\* is one; insert([saveData]) fails on the unique phone_number if there is one
RaceWrite(t) ==
    /\ pure[t].pc = "write"
    /\ LET saveData == SaveRow(pure[t].context[1], now)
       IN IF pure[t].existingData
          THEN /\ store' = [store EXCEPT ![RaceUser] = IF @ = Absent THEN @ ELSE saveData]
               /\ pure' = [pure EXCEPT ![t].pc = "done",
                                       ![t].wrote = IF store[RaceUser] = Absent
                                                    THEN None ELSE Some(saveData)]
          ELSE IF store[RaceUser] = Absent
          THEN /\ store' = [store EXCEPT ![RaceUser] = saveData]
               /\ pure' = [pure EXCEPT ![t].pc = "done", ![t].wrote = Some(saveData)]
          ELSE /\ store' = store
               /\ pure' = [pure EXCEPT ![t].pc = "done", ![t].error = TRUE]
    /\ UNCHANGED <<now, tasks, last, histories, outbox>>

InitRace ==
    /\ store \in {[u \in Users |-> Absent],
                  [u \in Users |-> IF u = RaceUser
                                   THEN SaveRow(createInitialContext(0), 0) ELSE Absent]}
    /\ now = 0
    /\ tasks = <<>>
    /\ last = NoTurn
    /\ histories = [u \in Users |-> <<>>]
    /\ outbox = [u \in Users |-> <<>>]
    /\ pure = [t \in RaceTurns |->
                  [pc |-> "get", context |-> None, existingData |-> FALSE,
                   wrote |-> None, error |-> FALSE]]

NextRace == \E t \in RaceTurns : RaceGet(t) \/ RaceSelect(t) \/ RaceWrite(t)

SpecRace == InitRace /\ [][NextRace]_vars

-----------------------------------------------------------------------------
(* One inbound message delivered twice to the conversational service, the   *)
(* two turns overlapping.  A turn records the user's text, obtains its      *)
(* reply, and sends it: sendMessage checks the history for a duplicate,     *)
(* posts, and only after the post returns does processMessageIntelligently  *)
(* record the reply in the history (part_002, lines 252-299 and 1133-1174). *)
(* The other turn may run between any two of these awaits.                  *)

DedupTurns == {1, 2}
DedupUser == "u1"
DedupText == "oi"
DedupReplies == {"details", "not-understood"}

DedupHistory(u) == [hist |-> histories[u]]

\* addToConversationHistory(from, 'user', messageText), then the analysis
\* that yields responseText
DedupStart(t) ==
    /\ pure[t].pc = "start"
    /\ \E responseText \in DedupReplies :
          pure' = [pure EXCEPT ![t].pc = "check", ![t].responseText = Text(responseText)]
    /\ histories' = [histories EXCEPT
                       ![DedupUser] = addToConversationHistory(DedupHistory(DedupUser), "user",
                                                               Text(DedupText)).hist]
    /\ UNCHANGED <<store, now, tasks, last, outbox>>

\* sendMessage up to the post: the duplicate guard
DedupCheck(t) ==
    /\ pure[t].pc = "check"
    /\ LET messages == histories[DedupUser]
           lastMessage == FindAssistant(messages)
       IN pure' = [pure EXCEPT ![t].pc =
                      IF Len(messages) > 0 /\ lastMessage # None
                         /\ lastMessage[1].content = pure[t].responseText
                      THEN "record" ELSE "post"]
    /\ UNCHANGED <<store, now, tasks, last, histories, outbox>>

\* httpService.post
DedupPost(t) ==
    /\ pure[t].pc = "post"
    /\ outbox' = [outbox EXCEPT ![DedupUser] =
                     Append(@, [text |-> pure[t].responseText, posted |-> TRUE])]
    /\ pure' = [pure EXCEPT ![t].pc = "record"]
    /\ UNCHANGED <<store, now, tasks, last, histories>>

\* addToConversationHistory(from, 'assistant', responseText)
DedupRecord(t) ==
    /\ pure[t].pc = "record"
    /\ histories' = [histories EXCEPT
                       ![DedupUser] = addToConversationHistory(DedupHistory(DedupUser), "assistant",
                                                               pure[t].responseText).hist]
    /\ pure' = [pure EXCEPT ![t].pc = "done"]
    /\ UNCHANGED <<store, now, tasks, last, outbox>>

InitDedup ==
    /\ store = [u \in Users |-> Absent]
    /\ now = 0
    /\ tasks = <<>>
    /\ last = NoTurn
    /\ histories = [u \in Users |-> <<>>]
    /\ outbox = [u \in Users |-> <<>>]
    /\ pure = [t \in DedupTurns |-> [pc |-> "start", responseText |-> Text("")]]

NextDedup ==
    \E t \in DedupTurns : DedupStart(t) \/ DedupCheck(t) \/ DedupPost(t) \/ DedupRecord(t)

SpecDedup == InitDedup /\ [][NextDedup]_vars

-----------------------------------------------------------------------------
(* The per-user stores as whole tables, with two users: the rows of         *)
(* conversation_states the ConversationService reaches through              *)
(* .eq('phone_number', phoneNumber), and the conversationHistories map of   *)
(* the conversational service, keyed by phone number.                       *)

MaxFrameHistory == 2

\* .eq('phone_number', phoneNumber): the rows the filter selects
TableSelect(table, phoneNumber) ==
    {u \in DOMAIN table : u = phoneNumber /\ table[u] # Absent}

\* saveConversationState on the table: update of the selected rows, or an
\* insert of a row for phoneNumber when the select found none
TableSave(table, phoneNumber, context, clock) ==
    IF TableSelect(table, phoneNumber) # {}
    THEN [u \in DOMAIN table |->
             IF u \in TableSelect(table, phoneNumber) THEN SaveRow(context, clock)
             ELSE table[u]]
    ELSE [table EXCEPT ![phoneNumber] = SaveRow(context, clock)]

\* Variant: the delete has lost its filter
TableClear_Unfiltered(table, phoneNumber) == [u \in DOMAIN table |-> Absent]

\* clearConversationState on the table: delete().eq('phone_number', phoneNumber)
TableClear(table, phoneNumber) ==
    [u \in DOMAIN table |-> IF u \in TableSelect(table, phoneNumber) THEN Absent ELSE table[u]]

\* getConversationHistory(phoneNumber) followed by the push of
\* addToConversationHistory
HistoryPush(map, phoneNumber, role, content) ==
    [map EXCEPT ![phoneNumber] = addToConversationHistory([hist |-> @], role, content).hist]

FrameContexts ==
    {[createInitialContext(0) EXCEPT !.state = state] : state \in {COLLECTING_INFO, CONFIRMING}}

FrameSave ==
    \E from \in Users, context \in FrameContexts, fail \in BOOLEAN :
        /\ store' = IF fail THEN store ELSE TableSave(store, from, context, now)
        /\ pure' = [op |-> "save", user |-> from, failed |-> fail]
        /\ UNCHANGED <<now, tasks, last, histories, outbox>>

FrameClear ==
    \E from \in Users, fail \in BOOLEAN :
        /\ store' = IF fail THEN store ELSE TableClear(store, from)
        /\ pure' = [op |-> "clear", user |-> from, failed |-> fail]
        /\ UNCHANGED <<now, tasks, last, histories, outbox>>

FramePush ==
    \E from \in Users, role \in {"user", "assistant"} :
        /\ Len(histories[from]) < MaxFrameHistory
        /\ histories' = HistoryPush(histories, from, role, Text("oi"))
        /\ pure' = [op |-> "push", user |-> from, failed |-> FALSE]
        /\ UNCHANGED <<store, now, tasks, last, outbox>>

\* handleRestartCommand of the conversational service:
\* conversationHistories.set(from, newHistory)
FrameForget ==
    \E from \in Users :
        /\ histories' = [histories EXCEPT ![from] = <<>>]
        /\ pure' = [op |-> "forget", user |-> from, failed |-> FALSE]
        /\ UNCHANGED <<store, now, tasks, last, outbox>>

InitFrame ==
    /\ store = [u \in Users |-> Absent]
    /\ now = 0
    /\ tasks = <<>>
    /\ last = NoTurn
    /\ histories = [u \in Users |-> <<>>]
    /\ outbox = [u \in Users |-> <<>>]
    /\ pure = [op |-> "none", user |-> "none", failed |-> FALSE]

NextFrame == FrameSave \/ FrameClear \/ FramePush \/ FrameForget

SpecFrame == InitFrame /\ [][NextFrame]_vars

-----------------------------------------------------------------------------
(* The dialogue machine resuming on a table left by earlier turns: the      *)
(* user's row is one that the handlers of whatsapp.service.ts save (after a *)
(* listing, a numbered selection list, the start of an update or of a       *)
(* deletion, a confirmation prompt) or is absent, and the user has two      *)
(* upcoming tasks.  Inbound events are typed texts and button replies, the  *)
(* latter normalised by the controller's handleInteractiveButtonResponse.   *)

MaxTurns == 2
ResumeUser == "u1"

SeedTasks ==
    <<[id |-> "t1", user_id |-> ResumeUser, title |-> Some("Almoço"),
       scheduled_date |-> IsoString(54000)],
      [id |-> "t2", user_id |-> ResumeUser, title |-> Some("Reunião"),
       scheduled_date |-> IsoString(57600)]>>

\* The context handleCollectingInfo leaves once title and time are known
ConfirmingContext ==
    [createInitialContext(0) EXCEPT
        !.state = CONFIRMING,
        !.taskData = [action |-> Some("Almoço"), dateTime |-> Some(Date(54000)),
                      location |-> None, participants |-> None,
                      fullText |-> <<"almoço 12:30", "almoço 12:30">>]]

SeedContexts ==
    {ListedContext(SeedTasks, 0),
     SelectingContext("update", SeedTasks, 0),
     SelectingContext("delete", SeedTasks, 0),
     UpdatingContext(SeedTasks[1], 0),
     DeletingContext(SeedTasks[2], 0),
     ConfirmingContext}

SeedRows == {Absent} \cup {SaveRow(context, 0) : context \in SeedContexts}

ResumeTexts ==
    {"1", "2", "3", "confirmar", "editar", "sim, excluir", "cancelar", "mudar horário",
     "não, assim não", "excluir reunião", "excluir 16:00"}

\* The reply buttons of sendInteractiveConfirmation and
\* sendInteractiveDeleteConfirmation
ResumeButtons ==
    {[id |-> "confirm_yes", title |-> "Confirmar"],
     [id |-> "confirm_no", title |-> "Editar"],
     [id |-> "delete_confirm", title |-> "Sim, excluir"],
     [id |-> "delete_cancel", title |-> "Cancelar"]}

\* Variant: the two confirmation buttons are mapped the other way round
ButtonText_Swapped(buttonId, buttonTitle) ==
    IF buttonId = "confirm_yes" THEN "editar"
    ELSE IF buttonId = "confirm_no" THEN "confirmar"
    ELSE toLowerCase(buttonTitle)

\* handleInteractiveButtonResponse: the text a button reply is processed as
ButtonText(buttonId, buttonTitle) ==
    IF buttonId = "confirm_yes" THEN "confirmar"
    ELSE IF buttonId = "confirm_no" THEN "editar"
    ELSE toLowerCase(buttonTitle)

\* What detectCrudIntent may answer; the last one is also its answer on any
\* failure
NoIntent == [operation |-> "none", confidence |-> 0, taskId |-> None]

ResumeIntents ==
    {[operation |-> "update", confidence |-> 90, taskId |-> None],
     [operation |-> "update", confidence |-> 90, taskId |-> Some("t2")],
     [operation |-> "delete", confidence |-> 90, taskId |-> None],
     [operation |-> "delete", confidence |-> 90, taskId |-> Some("t1")],
     [operation |-> "read", confidence |-> 90, taskId |-> None],
     [operation |-> "create", confidence |-> 50, taskId |-> None],
     NoIntent}

\* What detectCrudIntent would answer if it were asked in the middle of a
\* flow: nothing, or with high confidence the start of another flow
OtherFlowIntents ==
    {NoIntent,
     [operation |-> "delete", confidence |-> 90, taskId |-> Some("t1")],
     [operation |-> "read", confidence |-> 90, taskId |-> None]}

\* What extractTaskInformation may answer: null, or a new time and nothing else
TimeOnly ==
    [action |-> None, dateTime |-> Some(Date(61200)), location |-> None,
     participants |-> None]

ResumeInfos == {None, Some(TimeOnly)}

ResumeFaults == {{}, {"send"}, {"tasks"}, {"write"}}

MakeResumeEnv(info1, info2, crudIntent, faults) ==
    [info1 |-> info1, info2 |-> info2, crudIntent |-> crudIntent,
     failSend |-> "send" \in faults,
     failInteractive |-> "interactive" \in faults,
     failTasks |-> "tasks" \in faults,
     failGet |-> "get" \in faults,
     failWrite |-> "write" \in faults]

\* The turn of processConversation on the current table
ResumeOutcome(from, messageText, env) ==
    LET loaded == getConversationState(store[from], env)
        context == DispatchContext(loaded, now)
        w0 == [ctx |-> context, row |-> store[from], tasks |-> tasks,
               created |-> <<>>, updated |-> <<>>, removed |-> <<>>,
               highlights |-> <<>>, selected |-> <<>>, sent |-> <<>>, oracle |-> 0,
               handler |-> <<>>,
               saved |-> FALSE, failed |-> env.failGet, threw |-> FALSE]
    IN Turn(w0, from, messageText, now, env)

ResumeObservation(from, via, messageText, env, w) ==
    [user |-> from, via |-> via, text |-> messageText, env |-> env,
     before |-> store[from], tasksBefore |-> tasks,
     sent |-> w.sent, created |-> w.created, updated |-> w.updated,
     removed |-> w.removed, highlights |-> w.highlights, selected |-> w.selected,
     handler |-> w.handler, failed |-> w.failed]

ResumeProcess(from, via, messageText, env) ==
    /\ pure.turns < MaxTurns
    /\ \E w \in {ResumeOutcome(from, messageText, env)} :
          /\ store' = [store EXCEPT ![from] = w.row]
          /\ tasks' = w.tasks
          /\ last' = ResumeObservation(from, via, messageText, env, w)
    /\ pure' = [turns |-> pure.turns + 1]
    /\ UNCHANGED <<now, histories, outbox>>

\* The answers drawn for the oracle calls the turn can make
ResumeEnvs(from, messageText) ==
    LET context == DispatchContext(getConversationState(store[from], NoFaults), now)
        lower == toLowerCase(messageText)
        first == IF IsKeyword(messageText) \/ context.state \in {SELECTING_TASK, DELETING_TASK}
                 THEN {None} ELSE ResumeInfos
        second == IF /\ ~IsKeyword(messageText) /\ context.state = CONFIRMING
                     /\ ~IsAffirmative(lower) /\ ~IsNegative(lower)
                  THEN ResumeInfos ELSE {None}
        intents == IF IsKeyword(messageText) THEN {NoIntent}
                   ELSE IF context.state = INITIAL THEN ResumeIntents
                   ELSE OtherFlowIntents
    IN {MakeResumeEnv(info1, info2, crudIntent, faults) :
           info1 \in first, info2 \in second, crudIntent \in intents,
           faults \in ResumeFaults}

ResumeInbound ==
    \E messageText \in ResumeTexts :
        \E env \in ResumeEnvs(ResumeUser, messageText) :
            ResumeProcess(ResumeUser, "text", messageText, env)

ResumeButton ==
    \E button \in ResumeButtons :
        \E env \in ResumeEnvs(ResumeUser, ButtonText(button.id, button.title)) :
            ResumeProcess(ResumeUser, button.id, ButtonText(button.id, button.title), env)

InitResume ==
    /\ store \in {[u \in Users |-> IF u = ResumeUser THEN row ELSE Absent] : row \in SeedRows}
    /\ now = 0
    /\ tasks = SeedTasks
    /\ last = NoTurn
    /\ histories = [u \in Users |-> <<>>]
    /\ outbox = [u \in Users |-> <<>>]
    /\ pure = [turns |-> 0]

NextResume == ResumeInbound \/ ResumeButton

SpecResume == InitResume /\ [][NextResume]_vars

-----------------------------------------------------------------------------
(* Task ownership: two users with one task each, both services.  The oracle *)
(* names a task of the sender, a task of the other user, an unknown task or *)
(* none, as the target of an update or of a deletion.  The dialogue machine *)
(* resumes on the row handleListCommand saves, which lets it ask the intent *)
(* classifier.                                                              *)

OwnerTasks ==
    <<[id |-> "t1", user_id |-> "u1", title |-> Some("Almoço"),
       scheduled_date |-> IsoString(54000)],
      [id |-> "t2", user_id |-> "u2", title |-> Some("Reunião"),
       scheduled_date |-> IsoString(57600)]>>

\* The conversational service is followed for one turn of each user
MaxOwnerHistory == 2

OwnerIds == {None, Some("t1"), Some("t2"), Some("t9")}

OwnerAnalyses ==
    {[intent |-> i, confidence |-> 90, referencedTask |-> r,
      changes |-> [title |-> Some("Jantar"), scheduledDate |-> None],
      newTaskInfo |-> [title |-> None, scheduledDate |-> None],
      suggestedResponseText |-> None]
        : i \in {"update", "delete"}, r \in OwnerIds}

OwnerIntents ==
    {[operation |-> o, confidence |-> 90, taskId |-> r]
        : o \in {"update", "delete"}, r \in OwnerIds}

OwnerTexts == {"1", "confirmar", "sim, excluir", "excluir reunião"}

\* A turn of the conversational service
OwnerConversation ==
    \E from \in Users, analysis \in OwnerAnalyses :
        IntelStep(from, "oi", IntelEnv(analysis, 0, {}), MaxOwnerHistory, Len(OwnerTasks))

\* A turn of the dialogue machine
OwnerDialogue ==
    \E from \in Users, messageText \in OwnerTexts :
        \E env \in {MakeResumeEnv(None, None, crudIntent, {}) : crudIntent \in OwnerIntents} :
            ResumeProcess(from, "text", messageText, env)

InitOwner ==
    /\ store = [u \in Users |->
                  SaveRow(ListedContext(findAllByUser(OwnerTasks, u), 0), 0)]
    /\ now = 0
    /\ tasks = OwnerTasks
    /\ last = NoTurn
    /\ histories = [u \in Users |-> <<>>]
    /\ outbox = [u \in Users |-> <<>>]
    /\ pure = [turns |-> 0]

NextOwner == OwnerConversation \/ OwnerDialogue

SpecOwner == InitOwner /\ [][NextOwner]_vars

-----------------------------------------------------------------------------
(* handleIncomingMessage (whatsapp.service.ts): one webhook payload with    *)
(* several messages, processed in order inside a single try block.  A       *)
(* message that is not a text, or whose user cannot be found or created, is *)
(* skipped; an exception that leaves processConversation ends the loop.     *)

MaxPayload == 2

\* processConversation on the table as the loop has left it so far
ConversationOutcome(row, taskRows, from, messageText, clock, env) ==
    LET loaded == getConversationState(row, env)
        context == DispatchContext(loaded, clock)
        w0 == [ctx |-> context, row |-> row, tasks |-> taskRows,
               created |-> <<>>, updated |-> <<>>, removed |-> <<>>,
               highlights |-> <<>>, selected |-> <<>>, sent |-> <<>>, oracle |-> 0,
               handler |-> <<>>,
               saved |-> FALSE, failed |-> env.failGet, threw |-> FALSE]
    IN Turn(w0, from, messageText, clock, env)

\* The loop's state after processConversation has returned or thrown for
\* the message of `from`
AfterConversation(st, from, w) ==
    [store |-> [st.store EXCEPT ![from] = w.row],
     tasks |-> w.tasks,
     reached |-> Append(st.reached,
                        IF w.threw THEN "threw"
                        ELSE IF w.failed THEN "apologised"
                        ELSE "processed"),
     aborted |-> w.threw]

\* The loop over value.messages; st.reached records, for every message the
\* loop got to, what became of it.  Of a payload the state keeps the number
\* of its messages.
RECURSIVE handleIncomingMessage(_, _, _, _)
handleIncomingMessage(messages, envs, clock, st) ==
    IF messages = <<>> \/ st.aborted THEN st
    ELSE LET message == Head(messages)
             env == Head(envs)
             next ==
                 IF message.type # "text"
                 THEN [st EXCEPT !.reached = Append(@, "not-text")]
                 ELSE IF env.failUser
                 THEN [st EXCEPT !.reached = Append(@, "no-user")]
                 ELSE AfterConversation(st, message.from,
                          ConversationOutcome(st.store[message.from], st.tasks,
                                              message.from, message.text, clock, env))
         IN handleIncomingMessage(Tail(messages), Tail(envs), clock, next)

WebhookMessages ==
    [from : Users, type : {"text"}, text : {"almoço 12:30"}]
    \cup [from : Users, type : {"image"}, text : {""}]

\* Per message: nothing fails, the sender is down (plain and interactive
\* posts), the store's writes fail, the user lookup fails
WebhookFaults == {{}, {"send", "interactive"}, {"write"}, {"user"}}

WebhookEnv(faults) ==
    MakeEnv(Some([action |-> Some("Almoço"), dateTime |-> Some(Date(54000)),
                  location |-> None, participants |-> None]),
            None, faults)
        @@ [failUser |-> "user" \in faults]

Webhook ==
    \E n \in 1..MaxPayload :
      \E messages \in [1..n -> WebhookMessages], faults \in [1..n -> WebhookFaults] :
        \E st \in {handleIncomingMessage(messages,
                                          [k \in 1..n |-> WebhookEnv(faults[k])], now,
                                          [store |-> store, tasks |-> tasks,
                                           reached |-> <<>>, aborted |-> FALSE])} :
           /\ \A u \in Users :
                 st.store[u] # Absent => Len(st.store[u].task_data.fullText) <= MaxFullText
           /\ Len(st.tasks) <= MaxTasks
           /\ store' = st.store
           /\ tasks' = st.tasks
           /\ pure' = [messages |-> n, reached |-> st.reached]
           /\ UNCHANGED <<now, last, histories, outbox>>

InitWebhook ==
    /\ store = [u \in Users |-> Absent]
    /\ now = 0
    /\ tasks = <<>>
    /\ last = NoTurn
    /\ histories = [u \in Users |-> <<>>]
    /\ outbox = [u \in Users |-> <<>>]
    /\ pure = [messages |-> 0, reached |-> <<>>]

NextWebhook == Webhook

SpecWebhook == InitWebhook /\ [][NextWebhook]_vars

-----------------------------------------------------------------------------
(* Claims about the dialogue machine (specification Spec) *)

Turned == last.user # "none"

Ran(h) == \E i \in 1..Len(last.handler) : last.handler[i] = h

StateHandlers ==
    {"handleCollectingInfo", "handleConfirmation", "handleTaskUpdate",
     "handleTaskSelection", "handleTaskDeletion"}

\* Two rows hold the same context (the time of the write aside)
SameContext(r1, r2) ==
    IF r1 = Absent \/ r2 = Absent THEN r1 = r2
    ELSE r1.state = r2.state /\ r1.task_data = r2.task_data

\* Both title and when are set
HasTitleAndWhen(taskData) ==
    /\ taskData.action # None /\ taskData.action[1] # ""
    /\ taskData.dateTime # None

\* Same calendar day and less than two hours apart, in seconds
SameDayWithinTwoHours(a, b, offsetMinutes) ==
    /\ (a - offsetMinutes * 60) \div 86400 = (b - offsetMinutes * 60) \div 86400
    /\ a - b < 7200 /\ b - a < 7200

\* C1: after a turn that completes a flow (an affirmative reply in CONFIRMING
\* with a successful create, any reply in DELETING_TASK, a confirmed update,
\* a cancel keyword) the user's stored context is absent.
C1_CompletedFlowLeavesNoContext ==
    Turned =>
        LET completed ==
                \/ last.dispatched = CONFIRMING /\ last.created # <<>>
                \/ last.dispatched = DELETING_TASK
                \/ last.dispatched = UPDATING_TASK /\ Ran("updateTask")
                \/ Ran("handleCancelCommand")
        IN completed /\ ~last.failed => store[last.user] = Absent

\* C3: every stored CONFIRMING context has title and when set, and a saved
\* turn that ran handleCollectingInfo stores CONFIRMING exactly when the merged
\* slot model has both, COLLECTING_INFO otherwise.
C3_CompletenessGatesConfirmation ==
    /\ \A u \in Users :
          store[u] # Absent /\ store[u].state = CONFIRMING
              => HasTitleAndWhen(store[u].task_data)
    /\ Turned /\ Ran("handleCollectingInfo") /\ last.saved =>
          LET row == store[last.user]
          IN /\ row # Absent
             /\ row.state \in {COLLECTING_INFO, CONFIRMING}
             /\ row.state = CONFIRMING <=> HasTitleAndWhen(row.task_data)

C3_Witness ==
    /\ Turned /\ last.dispatched = COLLECTING_INFO /\ last.saved
    /\ Ran("handleCollectingInfo")
    /\ store[last.user].state = CONFIRMING
    /\ HasTitleAndWhen(store[last.user].task_data)

\* C4: a stored context older than 30 minutes is never dispatched on (the turn
\* runs on a freshly initialised context); one aged at most 30 minutes is
\* reused unchanged.
C4_StaleContextIsReplaced ==
    Turned /\ last.dispatched # "keyword" =>
        /\ last.age > 30 * 60 => last.fresh /\ ~last.reused
        /\ last.age >= 0 /\ last.age <= 30 * 60 => last.reused

C4_Witness ==
    /\ Turned /\ last.dispatched # "keyword"
    /\ last.age > 30 * 60 /\ last.fresh

\* C5: a cancel, restart, help or list keyword never reaches the oracle or a
\* state handler.
C5_KeywordsBypassOracleAndHandlers ==
    Turned /\ trim(toLowerCase(last.text)) \in
                 CancelKeywords \cup RestartKeywords \cup HelpKeywords \cup ListKeywords
        => /\ last.oracle = 0
           /\ \A h \in StateHandlers : ~Ran(h)

\* C6: a turn in which an external collaborator failed leaves the stored
\* context as it was.
C6_FailedTurnLeavesContextUntouched ==
    [][(last' # last /\ last'.user # "none" /\ last'.failed)
          => SameContext(store'[last'.user], store[last'.user])]_vars

\* C23: when handleCollectingInfo completes the slot model of a creation and
\* the user already has a task on the same day less than two hours from its
\* when, the stored state is CONFIRMING_CONFLICT, not CONFIRMING.
C23_ConflictingCompletionEntersConfirmingConflict ==
    (/\ Turned /\ last.dispatched = COLLECTING_INFO
     /\ Ran("handleCollectingInfo") /\ last.saved /\ ~last.failed
     /\ store[last.user] # Absent
     /\ HasTitleAndWhen(store[last.user].task_data)
     /\ \E k \in 1..Len(tasks) :
           /\ tasks[k].user_id = last.user
           /\ SameDayWithinTwoHours(getTime(tasks[k].scheduled_date),
                                    getTime(store[last.user].task_data.dateTime[1]), 0))
        => store[last.user].state = CONFIRMING_CONFLICT

\* From an empty table the dialogue machine stores no state other than
\* COLLECTING_INFO and CONFIRMING, and never asks the intent classifier.
OnlyCreationStatesFromEmptyTable ==
    /\ \A u \in Users :
          store[u] # Absent => store[u].state \in {COLLECTING_INFO, CONFIRMING}
    /\ Turned => ~Ran("detectCrudIntent")

\* C31: after a turn on a restart, help or list keyword in which no
\* collaborator failed, the user's stored context is absent or in INITIAL, so
\* that the next text is dispatched by intent and not by the old state.
C31_KeywordReturnsToInitial ==
    (/\ Turned /\ ~last.failed
     /\ trim(toLowerCase(last.text)) \in
            RestartKeywords \cup HelpKeywords \cup ListKeywords)
        => \/ store[last.user] = Absent
           \/ store[last.user].state = INITIAL

\* C32: a turn handled in COLLECTING_INFO, CONFIRMING or UPDATING_TASK whose
\* context is saved stores the fullText the turn started from (empty on a
\* fresh context) followed by the turn's text, once.
C32_FullTextGrowsByOneTextPerTurn ==
    [][(/\ now' = now
        /\ last'.user # "none"
        /\ last'.dispatched \in {COLLECTING_INFO, CONFIRMING, UPDATING_TASK}
        /\ last'.saved)
          => LET before == IF last'.reused
                           THEN store[last'.user].task_data.fullText ELSE <<>>
             IN /\ store'[last'.user] # Absent
                /\ store'[last'.user].task_data.fullText
                       = Append(before, last'.text)]_vars

-----------------------------------------------------------------------------
(* Claims about the conversational service (specification SpecIntel) *)

\* C2: when two immediately consecutive sendMessage calls to a user carry the
\* same text, the second one does not reach the HTTP post (the text is posted
\* once), whichever path produced it.
C2_RepeatedTextIsPostedOnce ==
    Turned =>
        LET sends == last.before \o last.calls
        IN \A i \in 1..(Len(sends) - 1) :
              sends[i].text = sends[i + 1].text => ~sends[i + 1].posted

\* C8: from an absent context and an empty task list, one message the oracle
\* analyses as a create intent with title and when makes exactly one create
\* call, for the extracted instant, and leaves no context behind.
C8_CreateIntentCreatesOnceAtExtractedInstant ==
    (/\ Turned /\ last.emptyBefore /\ ~last.failed
     /\ ~IsKeyword(last.text) /\ trim(toLowerCase(last.text)) \notin ListKeywords
     /\ last.analysed = Some(last.analysis)
     /\ last.analysis.intent = "create"
     /\ last.analysis.newTaskInfo.title # None
     /\ last.analysis.newTaskInfo.scheduledDate # None)
        => /\ Len(last.created) = 1
           /\ last.created[1].scheduledDate[1].t
                 = last.analysis.newTaskInfo.scheduledDate[1].t
           /\ store[last.user] = Absent

\* The n most recent entries of a log, oldest first
MostRecent(log, n) ==
    LET k == IF Len(log) < n THEN Len(log) ELSE n
    IN [i \in 1..k |-> log[Len(log) - k + i]]

\* C33 (specification SpecWindow): after every turn the user's history holds
\* at most 10 messages, namely the 10 most recent of the history before the
\* turn followed by the messages the turn added, in that order (none after a
\* cancel or restart); a history handed to the oracle has at most 10 entries.
C33_HistoryIsTenMostRecent ==
    [][last'.user # "none" =>
          LET u == last'.user
              cleared == trim(toLowerCase(last'.text))
                             \in CancelKeywords \cup RestartKeywords
          IN /\ Len(histories'[u]) <= 10
             /\ histories'[u] = IF cleared THEN <<>>
                                ELSE MostRecent(histories[u] \o last'.pushed, 10)
             /\ \A i \in 1..Len(last'.consulted) : Len(last'.consulted[i]) <= 10]_vars

\* A turn on a full history added two messages and the two oldest are gone
C33_Witness ==
    /\ last.user # "none"
    /\ Len(last.pushed) = 2
    /\ Len(histories[last.user]) = 10
    /\ last.consulted # <<>> /\ Len(last.consulted[1]) = 10
    /\ last.consulted[1][1].role = "assistant"

\* history.messages as sendMessage read it: its latest assistant entry
MostRecentAssistant(messages) ==
    LET hits == {i \in 1..Len(messages) : messages[i].role = "assistant"}
    IN IF hits = {} THEN None
       ELSE Some(messages[CHOOSE i \in hits : \A j \in hits : i >= j])

\* C22 (specification SpecGuard): a sendMessage call is suppressed exactly
\* when its text is identical to the most recent assistant message of the
\* user's history; a text that differs from it is posted even when it equals
\* an older assistant message.
C22_GuardComparesMostRecentAssistantMessage ==
    Turned =>
        \A i \in 1..Len(last.calls) :
            LET recent == MostRecentAssistant(last.seen[i])
            IN ~last.calls[i].posted
                  <=> (recent # None /\ recent[1].content = last.calls[i].text)

\* C25 (specification SpecEdit): a task is removed only by a turn whose text
\* is an affirmative reply and whose stored context was in DELETING_TASK; a
\* delete intent alone removes nothing.
C25_DeleteOnlyAfterConfirmation ==
    (Turned /\ last.removed # <<>>) =>
        /\ last.rowBefore # Absent
        /\ last.rowBefore.state = DELETING_TASK
        /\ trim(toLowerCase(last.text)) \in DeleteAnswers

\* The user's tasks as the turn read them
ListedBefore == findAllByUser(last.tasksBefore, last.user)

\* The first task of the list, other than the edited one, that is on the day
\* of the new time and less than two hours from it
FirstNear(editedId, newTime) ==
    LET near == {k \in 1..Len(ListedBefore) :
                    /\ ListedBefore[k].id # editedId
                    /\ SameDayWithinTwoHours(getTime(ListedBefore[k].scheduled_date),
                                             newTime, 0)}
    IN IF near = {} THEN None
       ELSE Some(ListedBefore[CHOOSE k \in near : \A j \in near : k <= j].id)

\* C28 (specification SpecEdit): an update turn that names one of the user's
\* tasks and carries a change, with no collaborator failing, makes exactly
\* one update call, for that task, conflict or not; with a new time the reply
\* names a conflicting task exactly when there is one, and it is the first
\* one of the task list.
C28_ConflictIsAdvisory ==
    (/\ Turned /\ ~last.failed /\ last.analysed # None
     /\ last.analysed[1].intent = "update"
     /\ last.analysed[1].referencedTask # None
     /\ \E k \in 1..Len(ListedBefore) :
           ListedBefore[k].id = last.analysed[1].referencedTask[1]
     /\ last.analysed[1].changes # [title |-> None, scheduledDate |-> None])
        => LET analysis == last.analysed[1]
               edited == analysis.referencedTask[1]
               near == IF analysis.changes.scheduledDate = None THEN None
                       ELSE FirstNear(edited, getTime(analysis.changes.scheduledDate[1]))
           IN /\ Len(last.updated) = 1
              /\ last.updated[1].id = edited
              /\ Len(last.calls) = 1
              /\ near # None => last.calls[1].text = Msg("updated-near", <<near[1]>>)
              /\ near = None => last.calls[1].text.kind # "updated-near"

\* t3 was moved to a time near t1 and t2, and the reply names t1
C28_Witness ==
    /\ Turned /\ ~last.failed /\ last.analysed # None
    /\ last.analysed[1].intent = "update"
    /\ last.analysed[1].referencedTask = Some("t3")
    /\ Len(last.updated) = 1 /\ last.updated[1].id = "t3"
    /\ Len(last.calls) = 1
    /\ last.calls[1].text = Msg("updated-near", <<"t1">>)
    /\ \E k \in 1..Len(tasks) : tasks[k].id = "t3" /\ getTime(tasks[k].scheduled_date) = 55800

\* C12: when the oracle call of a turn fails, the analysis the turn works with
\* is intent clarify with confidence 0.5; the turn asks the task store for
\* nothing, does not send the apology, and its one reply is the clarification
\* text of the fallback analysis.
C12_OracleFailureBecomesClarification ==
    (Turned /\ last.oracleFailed) =>
        /\ last.analysed # None
        /\ last.analysed[1].intent = "clarify"
        /\ last.analysed[1].confidence = 50
        /\ last.created = <<>>
        /\ ~last.failed
        /\ Len(last.calls) = 1
        /\ last.calls[1].text = Text("more-details")

\* The oracle failed on a message it would have analysed as a complete create
\* intent, and the clarification was posted
C12_Witness ==
    /\ Turned /\ last.oracleFailed
    /\ last.analysis.intent = "create"
    /\ last.analysis.newTaskInfo.title # None
    /\ last.analysis.newTaskInfo.scheduledDate # None
    /\ Len(last.calls) = 1 /\ last.calls[1].posted

\* C13: a turn whose analysis has confidence at most 0.6, or intent clarify,
\* asks the task store for nothing.
C13_LowConfidenceNeverWrites ==
    (/\ Turned /\ last.analysed # None
     /\ \/ last.analysed[1].confidence <= 60
        \/ last.analysed[1].intent = "clarify")
        => last.created = <<>>

-----------------------------------------------------------------------------
(* Claims about the store, the merge and the diff *)

SlotFields == {"action", "dateTime", "location", "participants"}

\* Two slot models agree, an instant counting the same as Date and as string
SameSlots(a, b) ==
    /\ a.action = b.action /\ a.location = b.location
    /\ a.participants = b.participants /\ a.fullText = b.fullText
    /\ (a.dateTime = None) = (b.dateTime = None)
    /\ a.dateTime # None /\ b.dateTime # None => a.dateTime[1].t = b.dateTime[1].t

\* C7: a get that follows a put returns the context that was put - state, slot
\* model, selectedTaskId, operation and candidate tasks - and a get that
\* follows a delete returns nothing.
C7_StoreRoundTrip ==
    pure.op = "get" /\ ~pure.failed =>
        IF pure.written = None THEN pure.got = None
        ELSE /\ pure.got # None
             /\ pure.got[1].state = pure.written[1].state
             /\ SameSlots(pure.got[1].taskData, pure.written[1].taskData)
             /\ pure.got[1].selectedTaskId = pure.written[1].selectedTaskId
             /\ pure.got[1].operation = pure.written[1].operation
             /\ pure.got[1].tasks = pure.written[1].tasks

\* A value an extraction supplies: present, and not the empty string or the
\* empty list
Supplied(field, value) ==
    /\ value # None
    /\ field \in {"action", "location"} => value[1] # ""
    /\ field = "participants" => value[1] # <<>>

\* Two values of a field agree: equal, or both supplying nothing
SameValue(field, a, b) == a = b \/ (~Supplied(field, a) /\ ~Supplied(field, b))

\* C9: merging the empty extraction changes nothing, and every field of the
\* merged model is the extraction's value where it supplies one and the
\* previous value otherwise, so no previous value is ever cleared.
C9_MergeIsFieldwiseOverride ==
    pure.stage = "merged" =>
        /\ pure.N = EmptyExtraction => pure.merged = pure.P
        /\ \A f \in SlotFields :
              SameValue(f, pure.merged[f],
                        IF Supplied(f, pure.N[f]) THEN pure.N[f] ELSE pure.P[f])
        /\ \A f \in SlotFields :
              Supplied(f, pure.P[f]) => Supplied(f, pure.merged[f])

\* C29: after a merge, participants is the extracted sequence, as a whole,
\* when the extraction supplies a non-empty one, and the previous
\* participants otherwise, an extracted empty sequence included (no
\* participants and an empty sequence of them counting as the same).
C29_ParticipantsReplacedOnlyByNonEmpty ==
    pure.stage = "merged" =>
        SameValue("participants", pure.merged.participants,
                  IF pure.N.participants # None /\ pure.N.participants[1] # <<>>
                  THEN pure.N.participants
                  ELSE pure.P.participants)

\* Equality of one field of two slot models: title and place by string
\* identity, when by instant, participants as sequences
FieldEqual(f, P, Q) ==
    IF f = "dateTime"
    THEN /\ (P.dateTime = None) = (Q.dateTime = None)
         /\ P.dateTime # None /\ Q.dateTime # None => P.dateTime[1].t = Q.dateTime[1].t
    ELSE P[f] = Q[f]

Flagged(highlights) == {highlights[i] : i \in 1..Len(highlights)}

\* C10: the diff of a model against itself is empty, diff(P, Q) and diff(Q, P)
\* flag the same fields, and a field is flagged exactly when its equality
\* check fails.
C10_DiffFlagsExactlyUnequalFields ==
    pure.stage = "diffed" =>
        /\ pure.self = <<>>
        /\ Flagged(pure.forward) = Flagged(pure.backward)
        /\ \A f \in SlotFields :
              f \in Flagged(pure.forward) <=> ~FieldEqual(f, pure.P, pure.Q)

\* C37: for a previous slot model P and a current one Q, checkForInfoChanges
\* reports a change exactly when getChangeHighlights lists at least one.
C37_DetectionAgreesWithRendering ==
    pure.stage = "diffed" => (pure.changed <=> pure.forward # <<>>)

-----------------------------------------------------------------------------
(* Claims about the conflict filter (specification SpecConflict) *)

\* C11: a listed task is reported as conflicting with the new date exactly
\* when it is another task than the one being edited, falls on the same
\* calendar day and is less than two hours away; the relation does not depend
\* on which of the two instants is taken first, and the edited task is never
\* reported.
C11_ConflictIsSameDayWithinTwoHours ==
    pure.stage = "filtered" =>
        /\ \A i \in 1..Len(pure.userTasks) :
              (\E j \in 1..Len(pure.conflicts) : pure.conflicts[j] = pure.userTasks[i])
                 <=> /\ pure.userTasks[i].id # pure.editing
                     /\ SameDayWithinTwoHours(pure.userTasks[i].scheduledDate,
                                              pure.newDate, pure.timezoneOffset)
        /\ \A i \in 1..Len(pure.userTasks) :
              pure.swapped[i] <=> SameDayWithinTwoHours(pure.userTasks[i].scheduledDate,
                                                        pure.newDate, pure.timezoneOffset)
        /\ \A j \in 1..Len(pure.conflicts) : pure.conflicts[j].id # pure.editing

\* The edited task itself is at the new date and is left out, while the other
\* task of the day is reported
C11_Witness ==
    /\ pure.stage = "filtered"
    /\ \E i \in 1..Len(pure.userTasks) :
          /\ pure.userTasks[i].id = pure.editing
          /\ pure.userTasks[i].scheduledDate = pure.newDate
    /\ Len(pure.conflicts) = 1

-----------------------------------------------------------------------------
(* Claims about concurrent turns (specification SpecRace) *)

\* C17: when two turns of one user overlap, both store writes succeed and,
\* once both are done, the stored context is the one of the two writes.
C17_ConcurrentWritesBothSucceed ==
    /\ \A t \in RaceTurns : ~pure[t].error
    /\ (\A t \in RaceTurns : pure[t].pc = "done")
          => \E t \in RaceTurns : pure[t].wrote = Some(store[RaceUser])

\* C18 (specification SpecDedup): when one inbound message is delivered twice
\* and the two turns overlap, no response text is posted to the user twice.
C18_RedeliveryPostsEachTextOnce ==
    \A i, j \in 1..Len(outbox[DedupUser]) :
        i < j => outbox[DedupUser][i].text # outbox[DedupUser][j].text

-----------------------------------------------------------------------------
(* Claims about the per-user stores (specification SpecFrame) *)

\* C19: an operation carried out for one user, failed or not, leaves the
\* stored context and the history (which is also the memory the outbound
\* duplicate guard reads) of every other user as they were.
C19_OtherUsersAreUntouched ==
    [][\A u \in Users :
          u # pure'.user => store'[u] = store[u] /\ histories'[u] = histories[u]]_vars

\* u1's context was cleared while u2 holds a context and a history
C19_Witness ==
    /\ pure.op = "clear" /\ pure.user = "u1" /\ ~pure.failed
    /\ store["u1"] = Absent
    /\ store["u2"] # Absent
    /\ histories["u2"] # <<>>

-----------------------------------------------------------------------------
(* Claims about the dialogue machine resuming on a stored row               *)
(* (specification SpecResume)                                               *)

Resumed == last # NoTurn

NoFault(env) == ~env.failSend /\ ~env.failTasks /\ ~env.failWrite /\ ~env.failGet

NoTaskWrite == last.created = <<>> /\ last.updated = <<>> /\ last.removed = <<>>

C15_UnmatchedUpdateShowsSelectionList ==
    (/\ Resumed /\ NoFault(last.env)
     /\ last.text = "mudar horário"
     /\ \/ last.before = Absent
        \/ /\ last.before # Absent /\ last.before.state = INITIAL
           /\ last.env.crudIntent.operation = "update"
           /\ last.env.crudIntent.taskId = None)
        => /\ store[last.user] # Absent
           /\ store[last.user].state = SELECTING_TASK
           /\ last.sent = <<"numbered-list">>
           /\ NoTaskWrite

\* C16: in CONFIRMING with title and time known, a message that is neither a
\* yes nor a no and from which only a new time is extracted leaves the state
\* CONFIRMING, changes only the time of the slot model, and the diff against
\* the slot model before the merge has the time as its one entry.
C16_TimeCorrectionIsDiffedAgainstPreMerge ==
    (/\ Resumed /\ NoFault(last.env)
     /\ last.before # Absent /\ last.before.state = CONFIRMING
     /\ last.text = "mudar horário"
     /\ last.env.info1 = Some(TimeOnly) /\ last.env.info2 = Some(TimeOnly))
        => /\ store[last.user] # Absent
           /\ store[last.user].state = CONFIRMING
           /\ store[last.user].task_data.action = last.before.task_data.action
           /\ store[last.user].task_data.location = last.before.task_data.location
           /\ store[last.user].task_data.participants = last.before.task_data.participants
           /\ store[last.user].task_data.dateTime = Some(IsoString(61200))
           /\ last.highlights = <<"dateTime">>

\* The handler processConversation runs for a stored state
StateHandler(state) ==
    CASE state = COLLECTING_INFO -> "handleCollectingInfo"
      [] state = CONFIRMING -> "handleConfirmation"
      [] state = SELECTING_TASK -> "handleTaskSelection"
      [] state = UPDATING_TASK -> "handleTaskUpdate"
      [] state = DELETING_TASK -> "handleTaskDeletion"

IntentHandlers ==
    {"detectCrudIntent", "handleListCommand", "handleNaturalLanguageUpdate",
     "handleNaturalLanguageDelete"}

\* C21: a turn that is not a control keyword and whose stored context is in
\* COLLECTING_INFO, CONFIRMING, SELECTING_TASK, UPDATING_TASK or DELETING_TASK
\* runs that state's handler first, never asks the intent classifier and runs
\* none of the handlers an intent starts, whatever the classifier would say.
C21_StateHasPriorityOverIntent ==
    (/\ Resumed /\ ~IsKeyword(last.text)
     /\ last.before # Absent
     /\ last.before.state \in {COLLECTING_INFO, CONFIRMING, SELECTING_TASK,
                               UPDATING_TASK, DELETING_TASK})
        => /\ last.handler # <<>>
           /\ last.handler[1] = StateHandler(last.before.state)
           /\ \A h \in IntentHandlers : ~Ran(h)

\* In UPDATING_TASK the classifier would have answered a confident delete of
\* t1; the update handler ran and nothing was removed
C21_Witness ==
    /\ Resumed /\ last.before # Absent /\ last.before.state = UPDATING_TASK
    /\ last.env.crudIntent.operation = "delete"
    /\ last.env.crudIntent.confidence > ConfidenceThreshold
    /\ Ran("handleTaskUpdate")
    /\ last.removed = <<>> /\ tasks = last.tasksBefore

\* The turn sent a confirmation prompt
Prompted(turn) ==
    \E i \in 1..Len(turn.sent) :
        turn.sent[i] \in {"confirmation", "confirmation-with-changes"}

\* C35: one confirmation prompt leads to at most one create: a turn creates
\* at most one task, and the turn that follows a turn which created a task
\* and sent no new confirmation prompt creates nothing.
C35_OneCreatePerConfirmationPrompt ==
    [][(pure'.turns = pure.turns + 1 /\ last'.user # "none")
          => /\ Len(last'.created) <= 1
             /\ (/\ last.user = last'.user
                 /\ last.created # <<>>
                 /\ ~Prompted(last))
                    => last'.created = <<>>]_vars

\* The task with this id belonged to the user when the turn began
OwnedBefore(id, user) ==
    \E k \in 1..Len(last.tasksBefore) :
        last.tasksBefore[k].id = id /\ last.tasksBefore[k].user_id = user

\* C36 (specification SpecOwner): every task a turn updates, removes or
\* selects for an update or a deletion belonged to the sender when the turn
\* began, and the tasks of every other user are left as they were.
C36_WritesTargetTheSendersTasks ==
    last.user # "none" =>
        /\ \A i \in 1..Len(last.updated) : OwnedBefore(last.updated[i].id, last.user)
        /\ \A i \in 1..Len(last.removed) : OwnedBefore(last.removed[i], last.user)
        /\ "selected" \in DOMAIN last =>
              \A i \in 1..Len(last.selected) : OwnedBefore(last.selected[i], last.user)
        /\ SelectSeq(tasks, LAMBDA r : r.user_id # last.user)
              = SelectSeq(last.tasksBefore, LAMBDA r : r.user_id # last.user)

\* The oracle named the other user's task as the target of a deletion, and
\* the conversational service removed nothing
C36_Witness ==
    /\ last.user = "u1" /\ "analysis" \in DOMAIN last
    /\ last.analysis.intent = "delete"
    /\ last.analysis.referencedTask = Some("t2")
    /\ last.removed = <<>>
    /\ \E k \in 1..Len(tasks) : tasks[k].id = "t2" /\ tasks[k].user_id = "u2"

\* C38 (specification SpecWebhook): every message of a webhook payload is
\* reached by the loop, whatever failed while an earlier message of the same
\* payload was processed.
C38_EveryMessageOfThePayloadIsReached ==
    Len(pure.reached) = pure.messages

\* C34: the multi-turn states are entered from an absent context: when a user
\* with no stored context sends a text that the classifier confidently reads
\* as an update or a deletion of one of the user's tasks, and nothing fails,
\* the turn is dispatched by intent and the stored state afterwards is
\* SELECTING_TASK, UPDATING_TASK or DELETING_TASK.
C34_NewUserEntersMultiTurnStates ==
    (/\ Resumed /\ NoFault(last.env) /\ ~IsKeyword(last.text)
     /\ last.before = Absent
     /\ last.env.crudIntent.operation \in {"update", "delete"}
     /\ last.env.crudIntent.confidence > ConfidenceThreshold)
        => /\ Ran("detectCrudIntent")
           /\ store[last.user] # Absent
           /\ store[last.user].state \in {SELECTING_TASK, UPDATING_TASK, DELETING_TASK}

\* C24: in CONFIRMING, without a fault, a task is created only by a turn
\* whose text is affirmative, and then exactly once; a turn whose text
\* contains a negation or is 'editar' creates nothing and leaves the stored
\* state COLLECTING_INFO, whatever else the text contains.
C24_OnlyAffirmativeCreates ==
    (/\ Resumed /\ NoFault(last.env) /\ ~IsKeyword(last.text)
     /\ last.before # Absent /\ last.before.state = CONFIRMING)
        => /\ last.created # <<>> =>
                 IsAffirmative(toLowerCase(last.text)) /\ Len(last.created) = 1
           /\ IsNegative(toLowerCase(last.text)) =>
                 /\ last.created = <<>>
                 /\ store[last.user] # Absent
                 /\ store[last.user].state = COLLECTING_INFO

\* The slot model after the extraction of the turn was merged into the
\* stored one
MergedBefore ==
    IF last.env.info1 = None THEN last.before.task_data
    ELSE ToJson(Merge(last.before.task_data, last.env.info1[1]))

UpcomingBefore == UpcomingTasks(findAllByUser(last.tasksBefore, last.user), 0)

\* The text mentions the task: its title in any case, or its time of day
Mentions(messageText, task) ==
    \/ includes(toLowerCase(messageText), toLowerCase(task.title[1]))
    \/ includes(toLowerCase(messageText), TimeText(getTime(task.scheduled_date)))

TypedEquivalent(buttonId) ==
    CASE buttonId = "confirm_yes" -> "confirmar"
      [] buttonId = "confirm_no" -> "editar"
      [] buttonId = "delete_confirm" -> "sim, excluir"
      [] buttonId = "delete_cancel" -> "cancelar"

\* C20: in every dialogue state, a turn started by a button reply ends with
\* the stored context, the task table and the task-store calls that the turn
\* started by typing the equivalent text ends with.
C20_ButtonReplyEqualsTypedText ==
    [][(last' # NoTurn /\ last'.via # "text") =>
          LET typed == ResumeOutcome(last'.user, TypedEquivalent(last'.via), last'.env)
          IN /\ store' = [store EXCEPT ![last'.user] = typed.row]
             /\ tasks' = typed.tasks
             /\ last'.created = typed.created
             /\ last'.updated = typed.updated
             /\ last'.removed = typed.removed]_vars

\* The confirm button pressed in CONFIRMING created the task
C20_Witness ==
    /\ Resumed /\ last.via = "confirm_yes"
    /\ last.before # Absent /\ last.before.state = CONFIRMING
    /\ Len(last.created) = 1
    /\ store[last.user] # Absent

====
